---- MODULE Spec2Model ----
(***************************************************************************)
(* Relationship-aware data generation of true_mock: the table models       *)
(* (core/base_table.py), the relations and the model registry              *)
(* (core/relations.py), with the salary -> employee relation of            *)
(* models/salary_table.py as the relation under study; the columns         *)
(* (core/columns.py) and the JSON-driven DataGenerator                     *)
(* (core/generation/data_generator.py) with its configuration generator   *)
(* (table_config_generator.py); the relationship analysis of the model     *)
(* generator (core/model_generator.py); and the batch insertion            *)
(* (core/data_inserter.py, insert_data.py).                                *)
(*                                                                         *)
(* Each part has its own specification and leaves the variables of the     *)
(* other parts unchanged:                                                  *)
(*   Spec, SpecResolve   registry and relations                            *)
(*   SpecRaise           the same with generators that can raise           *)
(*   SpecLate            a model registered after the relation was created *)
(*   SpecColumns         Column.generate and DataGenerator.generate_row    *)
(*   SpecConfig          generated table configurations                    *)
(*   SpecSeed            seeded DataGenerator instances                    *)
(*   SpecReference       ReferenceColumn and its referenced table          *)
(*   SpecAnalyze         ModelGenerator._analyze_relationships             *)
(*   SpecInsert          BatchInserter.insert_tables                       *)
(*   SpecInsertRaise     the same with generators that can raise           *)
(*   SpecInsertAny       the same with any assignable sizes                *)
(*   SpecBatch           direct calls of _prepare_data and insert_batch    *)
(*                                                                         *)
(* Scalars are integers.  NULL (0) stands for Python's None: every integer *)
(* generator of the models draws from randint(1, 1000000), so 0 is never a *)
(* generated value.  Key columns draw from 1..MaxKey; every other column   *)
(* (names, dates, amounts) is abstracted to the single non-null value      *)
(* AnyValue; the only code that treats such a value by its type is         *)
(* _format_value, modelled per column in format_value.                     *)
(***************************************************************************)
EXTENDS Integers, Sequences, FiniteSets, TLC

\* ---------------------------------------------------------------- bounds
\* randint(1, 1000000) of the key columns, cut to 1..MaxKey
MaxKey == 2
\* RelationConfig.pool_size ranges over MinConfig..MaxPoolSize
MaxPoolSize == 2
\* RelationConfig.min_related and max_related range over MinConfig..MaxRelated
MaxRelated == 2
\* TableModel.rows_per_table ranges over 1..MaxRowsPerTable
MaxRowsPerTable == 1
\* the count argument of a direct generate_rows call ranges over 0..MaxCount
MaxCount == 1
\* insertion: TableModel.rows_per_table ranges over 1..MaxInsertRows
MaxInsertRows == 3
\* insertion: TableModel.batch_size ranges over 1..MaxBatchSize
MaxBatchSize == 2
\* insertion: the list handed to insert_tables has at most MaxTables entries
MaxTables == 2
\* the resolution attempts whose outcome a caller keeps
MaxObserved == 2
\* generation_rules.seed of a JSON configuration ranges over 0..MaxSeed
MaxSeed == 3
\* the count of a DataGenerator.generate_rows call ranges over 0..MaxSeededRows
MaxSeededRows == 2
\* the largest number of foreign keys of a table
MaxForeignKeys == 2

\* ------------------------------------------------------- program constants
\* RelationConfig defaults
DefaultMinRelated == 1
DefaultMaxRelated == 5
DefaultPoolSize == 10

NULL == 0
AnyValue == 1
\* generate_rows(count=None): None, written as an integer that no count,
\* rows_per_table or batch_size takes
CountNone == -100

Keys == 1..MaxKey

Min(a, b) == IF a <= b THEN a ELSE b

Range(s) == {s[i] : i \in 1..Len(s)}

\* ----------------------------------------------------------- table models
TableNames == {"employee", "salary"}

\* _setup_columns: the columns dict, in insertion order
ColumnOrder(cls) ==
    IF cls = "employee"
    THEN <<"id", "birth_date", "first_name", "last_name", "gender", "hire_date">>
    ELSE <<"employee_id", "amount", "from_date", "to_date">>

ColumnNames(cls) == Range(ColumnOrder(cls))

\* the columns whose generator is random.randint(1, 1000000) and that carry keys
KeyColumns == {"id", "employee_id"}

\* every column of EmployeeTable and SalaryTable is built with nullable=False
\* and a custom generator
ColumnNullable(cls, c) == FALSE

\* the values the column's custom generator can return
GeneratorValues(cls, c) == IF c \in KeyColumns THEN Keys ELSE {AnyValue}

\* Column.generate: the null gate first, then the custom generator
ColumnGenerate(cls, c) ==
    (IF ColumnNullable(cls, c) THEN {NULL} ELSE {}) \cup GeneratorValues(cls, c)

\* A TableModel instance: its class and the rows_per_table its constructor set.
\* TableModel.__init__ sets columns, db_connector, config, rows_per_table and
\* batch_size; it sets no `relations` attribute and never calls _setup_relations.
ModelInstances ==
    [cls : TableNames, rows_per_table : 1..MaxRowsPerTable]

NoModel == [cls |-> "", rows_per_table |-> 0]

\* hasattr(model, 'relations') / hasattr(model, 'set_model_registry')
HasRelationsAttr(inst) == FALSE
HasSetModelRegistry(inst) == FALSE

\* TableModel.generate_row: {name: column.generate() for name, column in columns}
\* -- the rows one call can return.  No relation is consulted.
\* the dict comprehension, column by column: the rows over the first n columns
RECURSIVE RowsUpTo(_, _)
RowsUpTo(cls, n) ==
    IF n = 0 THEN {<<>>}
    ELSE {Append(r, v) : r \in RowsUpTo(cls, n - 1),
                         v \in ColumnGenerate(cls, ColumnOrder(cls)[n])}

\* a row is a mapping from column name to value
ColumnIndex(cls, c) == CHOOSE i \in 1..Len(ColumnOrder(cls)) : ColumnOrder(cls)[i] = c

RowsOfClass ==
    [cls \in TableNames |->
        {[c \in ColumnNames(cls) |-> r[ColumnIndex(cls, c)]] :
            r \in RowsUpTo(cls, Len(ColumnOrder(cls)))}]

generate_row(inst) == RowsOfClass[inst.cls]

\* the generation events of one generate_row call, in order
generate_row_trace(inst) ==
    [i \in 1..Len(ColumnOrder(inst.cls)) |-> <<"column", ColumnOrder(inst.cls)[i]>>]

\* count = count or self.rows_per_table
EffectiveCount(inst, count) ==
    IF count = CountNone \/ count = 0 THEN inst.rows_per_table ELSE count

\* TableModel.generate_rows: [self.generate_row() for _ in range(count)]
generate_rows(inst, count) ==
    [1..EffectiveCount(inst, count) -> generate_row(inst)]

\* ---------------------------------------------------------------- relations
RelationKinds == {"OneToOne", "ManyToOne", "OneToMany", "ManyToMany"}

\* the smallest integer a RelationConfig field is given
MinConfig == -1

\* RelationConfig: a dataclass that accepts any integers, negative ones and
\* min_related > max_related included
Configs ==
    [min_related : MinConfig..MaxRelated, max_related : MinConfig..MaxRelated,
     cache_existing : BOOLEAN, pool_size : MinConfig..MaxPoolSize]

DefaultConfig ==
    [min_related |-> DefaultMinRelated, max_related |-> DefaultMaxRelated,
     cache_existing |-> TRUE, pool_size |-> DefaultPoolSize]

\* the fields of the config each kind reads; the others keep their defaults
KindConfigs(kind) ==
    CASE kind = "OneToOne" -> {DefaultConfig}
      [] kind = "ManyToOne" ->
            {[DefaultConfig EXCEPT !.cache_existing = c.cache_existing,
                                   !.pool_size = c.pool_size] : c \in Configs}
      [] kind = "OneToMany" ->
            {[DefaultConfig EXCEPT !.min_related = c.min_related,
                                   !.max_related = c.max_related] : c \in Configs}
      [] OTHER -> Configs

\* Relation.__init__, for the relation SalaryTable._setup_relations declares:
\* salary.employee_id -> employee.id
Relations ==
    UNION {{[kind |-> k, from_table |-> "salary", to_table |-> "employee",
             from_column |-> "employee_id", to_column |-> "id", config |-> c] :
                c \in KindConfigs(k)} : k \in RelationKinds}

\* the relations a table class declares in _setup_relations
DeclaredRelations(cls, rel) == IF cls = rel.from_table THEN {rel} ELSE {}

VARIABLES
    models,        \* ModelRegistry._models: table name -> instance, NoModel if absent
    relation,      \* the relation object (fixed by its constructor)
    cached_data,   \* Relation._cached_data: table name -> list, <<>> if absent
    produced,      \* history: to_column values generate_row produced for to_table
    ret,           \* the outcome of the last call
    observed,      \* history: the errors of the first resolution attempts, in
                   \* order, where a caller keeps them; NotObserved elsewhere
    raising,       \* the table classes whose column generators can raise
    column,        \* the Column object under study, NoColumn before construction
    dg_config,     \* DataGenerator.config["columns"]
    schema,        \* the database schema of the table the JSON configuration and
                   \* the table model are generated from, <<>> if none
    gret,          \* the outcome of the last column-level or DataGenerator call
    prng,          \* the states of the module-level generators: `random` and `fake`
    dgen,          \* the seed of the JSON configuration and the DataGenerator
                   \* instances built from it
    refcol,        \* the ReferenceColumn under study: nullable, generator, db_connector
    cached_values, \* ReferenceColumn._cached_values
    referenced,    \* the database: the keys of the rows of the referenced table
    ref_hist,      \* history: the keys fetches have read, the keys committed
                   \* inserts have returned, the number of rows inserted
    inspector,     \* the database schema as the SQLAlchemy inspector reports it
    relationships, \* what ModelGenerator._analyze_relationships returned
    tables,        \* the list handed to BatchInserter.insert_tables
    flagged,       \* the column names that carry skip_generation = True
    tix,           \* insert_tables: position in the list of the current table
    phase,         \* insert_tables: "idle", "loop" (inside insert_table_data), "done"
    rows_inserted, \* insert_table_data: the loop counter
    results,       \* insert_tables: table name -> "absent", "ok" or "failed"
    attempts,      \* history: the tables insert_table_data was called for, in order
    writes,        \* history: the bulk writes attempted, in order
    persisted,     \* the database: table name -> number of committed rows
    open_conns,    \* the database: connections acquired and not yet released
    call           \* a direct call of _prepare_data or insert_batch: its
                   \* argument before and after, and what it built

relVars == <<models, relation, cached_data, produced, ret, observed>>
refVars == <<refcol, cached_values, referenced, ref_hist>>
mgVars == <<inspector, relationships>>
colVars == <<column, dg_config, schema, gret, prng, dgen, refVars, mgVars>>
insVars == <<tables, flagged, tix, phase, rows_inserted, results, attempts,
             writes, persisted, open_conns, call>>
vars == <<relVars, raising, colVars, insVars>>

\* what the registry and relation operations leave alone
nonRel == <<raising, colVars, insVars>>

NoRet ==
    [op |-> "init", err |-> "", scalar |-> NULL, list |-> <<>>, rows |-> <<>>,
     ngen |-> 0, drawn |-> CountNone, positions |-> <<>>,
     trace |-> <<>>, target |-> "", count |-> CountNone, model |-> NoModel,
     rebuilt |-> FALSE]

EmptyCache == [t \in TableNames |-> <<>>]

\* the caller keeps no record of the resolution attempts
NotObserved == <<"not observed">>

\* the caller's record after an attempt that ended with error e ("" for none);
\* the record holds the first MaxObserved attempts
Observe(h, e) ==
    IF h = NotObserved \/ Len(h) >= MaxObserved THEN h ELSE Append(h, e)

\* no Column object constructed
NoColumn ==
    [type |-> "", nullable |-> FALSE, generator |-> "none", skip_generation |-> FALSE]

\* the outcome of a column-level call: the value returned, the value the invoked
\* generator returned, whether the nullability trial succeeded, the functions
\* invoked in order, and the row a row-level call returned
NoGRet ==
    [op |-> "init", err |-> "", value |-> NULL, inner |-> NULL, trial |-> FALSE,
     calls |-> <<>>, kwarg_skip |-> FALSE, row |-> <<>>]

\* the two DataGenerator instances under study
DGInstances == {1, 2}

\* an instance that was not constructed
NoInstance == [built |-> FALSE, fresh |-> FALSE, generated |-> FALSE,
               was_fresh |-> FALSE, count |-> 0, out |-> <<>>]

\* the module-level generators before any seeding, no instance constructed
UnseededPrng == [random |-> [seed |-> -1, words |-> 0],
                 faker |-> [seed |-> -1, words |-> 0]]
NoGenerators == [seed |-> 0, inst |-> [i \in DGInstances |-> NoInstance]]

\* no ReferenceColumn constructed, an empty referenced table
NoRefColumn == [nullable |-> FALSE, generator |-> "none", db_connector |-> FALSE]
NoRefHistory == [read |-> {}, inserted |-> {}, rows_inserted |-> 0]

RefIdle ==
    /\ refcol = NoRefColumn
    /\ cached_values = {}
    /\ referenced = {}
    /\ ref_hist = NoRefHistory

\* the table whose relationships are analysed
AnalysedTable == "salary"

\* no schema inspected, _analyze_relationships not called
NoInspector ==
    [unique_constraints |-> {}, pk_constraint |-> <<>>,
     foreign_keys |-> [t \in TableNames |-> <<>>]]
NotAnalysed == [analysed |-> FALSE, list |-> <<>>]

MgIdle ==
    /\ inspector = NoInspector
    /\ relationships = NotAnalysed

ColIdle ==
    /\ RefIdle
    /\ MgIdle
    /\ column = NoColumn
    /\ dg_config = <<>>
    /\ schema = <<>>
    /\ gret = NoGRet
    /\ prng = UnseededPrng
    /\ dgen = NoGenerators

\* no insertion run: an empty input list, an empty database
NoResults == [t \in TableNames |-> "absent"]

EmptyDatabase == [t \in TableNames |-> 0]

\* no direct call of _prepare_data or insert_batch made
NoCall ==
    [op |-> "init", table |-> "", data_before |-> <<>>, data_after |-> <<>>,
     payload |-> <<>>, ok |-> TRUE]

InsIdle ==
    /\ tables = <<>>
    /\ flagged = {}
    /\ tix = 1
    /\ phase = "idle"
    /\ rows_inserted = 0
    /\ results = NoResults
    /\ attempts = <<>>
    /\ writes = <<>>
    /\ persisted = EmptyDatabase
    /\ open_conns = 0
    /\ call = NoCall

\* the registry is empty, no relation has been resolved
RelInit ==
    /\ models = [t \in TableNames |-> NoModel]
    /\ relation \in Relations
    /\ cached_data = EmptyCache
    /\ produced = {}
    /\ ret = NoRet
    /\ observed = NotObserved

\* the models of src/models: no generator of theirs raises
Init ==
    /\ RelInit
    /\ raising = {}
    /\ ColIdle
    /\ InsIdle

\* the to_column values of a list of rows
KeysOf(rows, col) == [i \in 1..Len(rows) |-> rows[i][col]]

\* what generating `rows` in table class cls adds to the history
Produce(cls, rows) ==
    IF cls = relation.to_table
    THEN produced \cup Range(KeysOf(rows, relation.to_column))
    ELSE produced

\* ------------------------------------------------------------ the registry
\* ModelRegistry.register_model: the model is stored, then
\* model.set_model_registry(self) is called, which TableModel does not define.
\* A model is registered under the table name of its class (get_table_name).
RegisterModel(name, inst) ==
    /\ name = inst.cls
    /\ models' = [models EXCEPT ![name] = inst]
    /\ ret' = [NoRet EXCEPT !.op = "register_model", !.target = name,
                 !.model = inst,
                 !.err = IF HasSetModelRegistry(inst) THEN "" ELSE "AttributeError"]
    /\ UNCHANGED <<relation, cached_data, produced, observed>>
    /\ UNCHANGED nonRel

\* table_name in self._models
Registered(reg, name) == name \in TableNames /\ reg[name] # NoModel

\* faulty variant: an unknown name yields a model built on demand instead of KeyError
get_model_OnDemand(reg, name) ==
    IF Registered(reg, name)
    THEN [err |-> "", model |-> reg[name]]
    ELSE [err |-> "", model |-> [cls |-> name, rows_per_table |-> 1]]

\* faulty variant: the lookup is answered from the registry as it was when the
\* relation was constructed, before any registration
get_model_AtCreation(reg, name) == [err |-> "KeyError", model |-> NoModel]

\* ModelRegistry.get_model: the model, or KeyError
get_model(reg, name) ==
    IF Registered(reg, name)
    THEN [err |-> "", model |-> reg[name]]
    ELSE [err |-> "KeyError", model |-> NoModel]

\* a direct call of ModelRegistry.get_model
GetModel(name) ==
    /\ ret' = [NoRet EXCEPT !.op = "get_model", !.target = name,
                 !.err = get_model(models, name).err,
                 !.model = get_model(models, name).model]
    /\ UNCHANGED <<models, relation, cached_data, produced, observed>>
    /\ UNCHANGED nonRel

\* Relation.clear_cache
ClearCache ==
    /\ cached_data' = EmptyCache
    /\ ret' = [NoRet EXCEPT !.op = "clear_cache"]
    /\ UNCHANGED <<models, relation, produced, observed>>
    /\ UNCHANGED nonRel

\* ModelRegistry.clear_caches: `for relation in model.relations` on the first
\* registered model; a TableModel has no `relations` attribute, so with any
\* model registered the loop raises before a single cache is cleared.
ClearCaches ==
    LET regd == {t \in TableNames : Registered(models, t)} IN
    /\ cached_data' =
          IF \A t \in regd : HasRelationsAttr(models[t])
          THEN IF \E t \in regd : DeclaredRelations(t, relation) # {}
               THEN EmptyCache ELSE cached_data
          ELSE cached_data
    /\ ret' = [NoRet EXCEPT !.op = "clear_caches",
                 !.err = IF \A t \in regd : HasRelationsAttr(models[t])
                         THEN "" ELSE "AttributeError"]
    /\ UNCHANGED <<models, relation, produced, observed>>
    /\ UNCHANGED nonRel

\* ---------------------------------------------------------- row generation
\* a column generator of the model's class can raise
may_raise(inst) == inst.cls \in raising

\* TableModel.generate_rows when generate_row raises in one of its iterations:
\* the rows completed before the exception, which are discarded with the list
generate_rows_raised(inst, count) ==
    IF may_raise(inst)
    THEN UNION {[1..j -> generate_row(inst)] :
                   j \in 0..(EffectiveCount(inst, count) - 1)}
    ELSE {}

\* a direct call of TableModel.generate_row, on a model taken from the registry
GenerateRow(inst) ==
    /\ inst # NoModel
    /\ \/ \E row \in generate_row(inst) :
            /\ ret' = [NoRet EXCEPT !.op = "generate_row", !.target = inst.cls,
                         !.rows = <<row>>, !.ngen = 1,
                         !.trace = generate_row_trace(inst)]
            /\ produced' = Produce(inst.cls, <<row>>)
       \/ /\ may_raise(inst)
          /\ \E failing \in 1..Len(ColumnOrder(inst.cls)) :
                ret' = [NoRet EXCEPT !.op = "generate_row", !.target = inst.cls,
                          !.err = "GeneratorError",
                          !.trace = SubSeq(generate_row_trace(inst), 1, failing)]
          /\ UNCHANGED produced
    /\ UNCHANGED <<models, relation, cached_data, observed>>
    /\ UNCHANGED nonRel

\* a direct call of TableModel.generate_rows(count), on a model taken from the
\* registry
GenerateRows(inst, count) ==
    /\ inst # NoModel
    /\ \/ \E rows \in generate_rows(inst, count) :
            /\ ret' = [NoRet EXCEPT !.op = "generate_rows", !.target = inst.cls,
                         !.rows = rows, !.ngen = Len(rows), !.count = count]
            /\ produced' = Produce(inst.cls, rows)
       \/ \E completed \in generate_rows_raised(inst, count) :
            /\ ret' = [NoRet EXCEPT !.op = "generate_rows", !.target = inst.cls,
                         !.err = "GeneratorError", !.ngen = Len(completed),
                         !.count = count]
            /\ produced' = Produce(inst.cls, completed)
    /\ UNCHANGED <<models, relation, cached_data, observed>>
    /\ UNCHANGED nonRel

\* ------------------------------------------------------ relation resolution
\* faulty variant: the cached list is never consulted, the pool is rebuilt on every call
ensure_cached_data_NoReuse(rel, cache, reg) ==
    LET related == get_model(reg, rel.to_table) IN
    IF related.err # ""
    THEN {[err |-> related.err, cache |-> cache, rows |-> <<>>,
                rebuilt |-> FALSE]}
    ELSE {[err |-> "",
           cache |-> [cache EXCEPT ![rel.to_table] = KeysOf(rows, rel.to_column)],
           rows |-> rows, rebuilt |-> TRUE] :
              rows \in generate_rows(related.model, rel.config.pool_size)}

\* faulty variant: the keys of the rows completed before an exception are stored
ensure_cached_data_PartialPool(rel, cache, reg) ==
    IF cache[rel.to_table] = <<>> \/ ~rel.config.cache_existing
    THEN LET related == get_model(reg, rel.to_table) IN
         IF related.err # ""
         THEN {[err |-> related.err, cache |-> cache, rows |-> <<>>,
                rebuilt |-> FALSE]}
         ELSE {[err |-> "",
                cache |-> [cache EXCEPT ![rel.to_table] = KeysOf(rows, rel.to_column)],
                rows |-> rows, rebuilt |-> TRUE] :
                   rows \in generate_rows(related.model, rel.config.pool_size)}
              \cup
              {[err |-> "GeneratorError",
                cache |-> [cache EXCEPT
                             ![rel.to_table] = KeysOf(completed, rel.to_column)],
                rows |-> completed, rebuilt |-> FALSE] :
                   completed \in generate_rows_raised(related.model,
                                                      rel.config.pool_size)}
    ELSE {[err |-> "", cache |-> cache, rows |-> <<>>, rebuilt |-> FALSE]}

\* Relation._ensure_cached_data: the outcomes of one call.  The pool is rebuilt
\* when the cached list is missing or empty, or when caching is disabled.
ensure_cached_data(rel, cache, reg) ==
    IF cache[rel.to_table] = <<>> \/ ~rel.config.cache_existing
    THEN LET related == get_model(reg, rel.to_table) IN
         IF related.err # ""
         THEN {[err |-> related.err, cache |-> cache, rows |-> <<>>,
                rebuilt |-> FALSE]}
         ELSE {[err |-> "",
                cache |-> [cache EXCEPT ![rel.to_table] = KeysOf(rows, rel.to_column)],
                rows |-> rows, rebuilt |-> TRUE] :
                   rows \in generate_rows(related.model, rel.config.pool_size)}
              \cup
              {[err |-> "GeneratorError", cache |-> cache, rows |-> completed,
                rebuilt |-> FALSE] :
                   completed \in generate_rows_raised(related.model,
                                                      rel.config.pool_size)}
    ELSE {[err |-> "", cache |-> cache, rows |-> <<>>, rebuilt |-> FALSE]}

\* faulty variant: the key of the generated row is also stored in the relation's cache
ResolveOneToOne_Caching ==
    /\ relation.kind = "OneToOne"
    /\ LET related == get_model(models, relation.to_table) IN
       IF related.err # ""
       THEN /\ ret' = [NoRet EXCEPT !.op = "generate_related_data",
                         !.target = relation.to_table, !.err = related.err]
            /\ UNCHANGED <<produced, cached_data>>
       ELSE \E row \in generate_row(related.model) :
               /\ ret' = [NoRet EXCEPT !.op = "generate_related_data",
                            !.target = relation.to_table, !.rows = <<row>>,
                            !.ngen = 1, !.scalar = row[relation.to_column]]
               /\ produced' = Produce(relation.to_table, <<row>>)
               /\ cached_data' = [cached_data EXCEPT
                                    ![relation.to_table] = <<row[relation.to_column]>>]
    /\ observed' = Observe(observed, ret'.err)
    /\ UNCHANGED <<models, relation>>
    /\ UNCHANGED nonRel

\* OneToOneRelation.generate_related_data
ResolveOneToOne ==
    /\ relation.kind = "OneToOne"
    /\ LET related == get_model(models, relation.to_table) IN
       IF related.err # ""
       THEN /\ ret' = [NoRet EXCEPT !.op = "generate_related_data",
                         !.target = relation.to_table, !.err = related.err]
            /\ UNCHANGED produced
       ELSE \/ \E row \in generate_row(related.model) :
                 /\ ret' = [NoRet EXCEPT !.op = "generate_related_data",
                              !.target = relation.to_table, !.rows = <<row>>,
                              !.ngen = 1, !.scalar = row[relation.to_column]]
                 /\ produced' = Produce(relation.to_table, <<row>>)
            \/ /\ may_raise(related.model)
               /\ ret' = [NoRet EXCEPT !.op = "generate_related_data",
                            !.target = relation.to_table,
                            !.err = "GeneratorError"]
               /\ UNCHANGED produced
    /\ observed' = Observe(observed, ret'.err)
    /\ UNCHANGED <<models, relation, cached_data>>
    /\ UNCHANGED nonRel

\* random.choice(cached_data): the positions it can pick; an empty sequence
\* raises IndexError
choice_positions(pool) == 1..Len(pool)
choice_error(pool) == IF pool = <<>> THEN "IndexError" ELSE ""

\* ManyToOneRelation.generate_related_data
ResolveManyToOne ==
    /\ relation.kind = "ManyToOne"
    /\ \E o \in ensure_cached_data(relation, cached_data, models) :
         /\ cached_data' = o.cache
         /\ produced' = Produce(relation.to_table, o.rows)
         /\ IF o.err # ""
            THEN ret' = [NoRet EXCEPT !.op = "generate_related_data",
                           !.target = relation.to_table, !.err = o.err,
                           !.ngen = Len(o.rows), !.rebuilt = o.rebuilt]
            ELSE IF choice_error(o.cache[relation.to_table]) # ""
            THEN ret' = [NoRet EXCEPT !.op = "generate_related_data",
                           !.target = relation.to_table,
                           !.err = choice_error(o.cache[relation.to_table]),
                           !.ngen = Len(o.rows), !.rebuilt = o.rebuilt]
            ELSE \E p \in choice_positions(o.cache[relation.to_table]) :
                    ret' = [NoRet EXCEPT !.op = "generate_related_data",
                              !.target = relation.to_table, !.rows = o.rows,
                              !.ngen = Len(o.rows), !.rebuilt = o.rebuilt,
                              !.scalar = o.cache[relation.to_table][p]]
    /\ observed' = Observe(observed, ret'.err)
    /\ UNCHANGED <<models, relation>>
    /\ UNCHANGED nonRel

\* random.randint(min_related, max_related): an empty range raises ValueError
randint_error(lo, hi) == IF lo > hi THEN "ValueError" ELSE ""
randint(lo, hi) == lo..hi

\* OneToManyRelation.generate_related_data
ResolveOneToMany ==
    /\ relation.kind = "OneToMany"
    /\ \/ /\ randint_error(relation.config.min_related,
                            relation.config.max_related) # ""
          /\ ret' = [NoRet EXCEPT !.op = "generate_related_data",
                       !.target = relation.to_table,
                       !.err = randint_error(relation.config.min_related,
                                             relation.config.max_related)]
          /\ UNCHANGED produced
       \/ \E count \in randint(relation.config.min_related,
                                relation.config.max_related) :
            LET related == get_model(models, relation.to_table) IN
            IF related.err # ""
            THEN /\ ret' = [NoRet EXCEPT !.op = "generate_related_data",
                              !.target = relation.to_table, !.err = related.err]
                 /\ UNCHANGED produced
            ELSE \/ \E rows \in generate_rows(related.model, count) :
                      /\ ret' = [NoRet EXCEPT !.op = "generate_related_data",
                                   !.target = relation.to_table, !.rows = rows,
                                   !.ngen = Len(rows), !.drawn = count,
                                   !.list = KeysOf(rows, relation.to_column)]
                      /\ produced' = Produce(relation.to_table, rows)
                 \/ \E completed \in generate_rows_raised(related.model, count) :
                      /\ ret' = [NoRet EXCEPT !.op = "generate_related_data",
                                   !.target = relation.to_table,
                                   !.err = "GeneratorError",
                                   !.ngen = Len(completed), !.drawn = count]
                      /\ produced' = Produce(relation.to_table, completed)
    /\ observed' = Observe(observed, ret'.err)
    /\ UNCHANGED <<models, relation, cached_data>>
    /\ UNCHANGED nonRel

\* faulty variant: random.choices instead of random.sample, positions may repeat
sample_positions_WithReplacement(n, k) == [1..k -> 1..n]

\* random.sample(population, k): k positions of the population, all different,
\* in the order drawn; a negative k (or one above the population, which
\* min(count, len) excludes) raises ValueError
sample_positions(n, k) ==
    {s \in [1..k -> 1..n] : \A i, j \in 1..k : i # j => s[i] # s[j]}
sample_error(n, k) == IF k < 0 \/ k > n THEN "ValueError" ELSE ""

\* ManyToManyRelation.generate_related_data
ResolveManyToMany ==
    /\ relation.kind = "ManyToMany"
    /\ \/ /\ randint_error(relation.config.min_related,
                            relation.config.max_related) # ""
          /\ ret' = [NoRet EXCEPT !.op = "generate_related_data",
                       !.target = relation.to_table,
                       !.err = randint_error(relation.config.min_related,
                                             relation.config.max_related)]
          /\ UNCHANGED <<produced, cached_data>>
       \/ \E count \in randint(relation.config.min_related,
                                relation.config.max_related) :
          \E o \in ensure_cached_data(relation, cached_data, models) :
            /\ cached_data' = o.cache
            /\ produced' = Produce(relation.to_table, o.rows)
            /\ IF o.err # ""
               THEN ret' = [NoRet EXCEPT !.op = "generate_related_data",
                              !.target = relation.to_table, !.err = o.err,
                              !.ngen = Len(o.rows), !.rebuilt = o.rebuilt]
               ELSE LET pool == o.cache[relation.to_table] IN
                    IF sample_error(Len(pool), Min(count, Len(pool))) # ""
                    THEN ret' = [NoRet EXCEPT !.op = "generate_related_data",
                                   !.target = relation.to_table,
                                   !.err = sample_error(Len(pool),
                                                        Min(count, Len(pool))),
                                   !.ngen = Len(o.rows), !.rebuilt = o.rebuilt, !.drawn = count]
                    ELSE
                    \E s \in sample_positions(Len(pool), Min(count, Len(pool))) :
                       ret' = [NoRet EXCEPT !.op = "generate_related_data",
                                 !.target = relation.to_table, !.rows = o.rows,
                                 !.ngen = Len(o.rows), !.rebuilt = o.rebuilt, !.drawn = count,
                                 !.positions = s,
                                 !.list = [i \in 1..Len(s) |-> pool[s[i]]]]
    /\ observed' = Observe(observed, ret'.err)
    /\ UNCHANGED <<models, relation>>
    /\ UNCHANGED nonRel

Next ==
    \/ \E inst \in ModelInstances : RegisterModel(inst.cls, inst)
    \/ \E name \in TableNames : GetModel(name)
    \/ ClearCache
    \/ ClearCaches
    \/ \E name \in TableNames : GenerateRow(models[name])
    \/ \E name \in TableNames, count \in {CountNone} \cup 0..MaxCount :
          GenerateRows(models[name], count)
    \/ ResolveOneToOne
    \/ ResolveManyToOne
    \/ ResolveOneToMany
    \/ ResolveManyToMany

Spec == Init /\ [][Next]_vars

\* The registry and the relation alone: registration, cache clearing and the
\* four resolutions, without direct row generation by a caller.
NextResolve ==
    \/ \E inst \in ModelInstances : RegisterModel(inst.cls, inst)
    \/ ClearCache
    \/ ClearCaches
    \/ ResolveOneToOne
    \/ ResolveManyToOne
    \/ ResolveOneToMany
    \/ ResolveManyToMany

SpecResolve == Init /\ [][NextResolve]_vars

\* the relations whose count of related records is fixed, or whose range of
\* counts is empty (random.randint raises): the count drawn plays no part in
\* how an exception travels or in when the registry is read, each value is
\* covered
FixedCountRelations ==
    {r \in Relations : r.kind \in {"OneToOne", "ManyToOne"}
                          \/ r.config.min_related >= r.config.max_related}

\* Table models whose column generators can raise on any call: registration,
\* cache clearing, direct generate_row calls and the four resolutions.
InitRaise ==
    /\ RelInit
    /\ relation \in FixedCountRelations
    /\ raising = TableNames
    /\ ColIdle
    /\ InsIdle

NextRaise ==
    \/ \E inst \in ModelInstances : RegisterModel(inst.cls, inst)
    \/ ClearCache
    \/ \E name \in TableNames : GenerateRow(models[name])
    \/ ResolveOneToOne
    \/ ResolveManyToOne
    \/ ResolveOneToMany
    \/ ResolveManyToMany

SpecRaise == InitRaise /\ [][NextRaise]_vars

\* A caller that creates the relation before any table model is registered
\* and keeps the outcome of its first resolution attempts: registration and
\* the four resolutions.
InitLate ==
    /\ models = [t \in TableNames |-> NoModel]
    /\ relation \in FixedCountRelations
    /\ cached_data = EmptyCache
    /\ produced = {}
    /\ ret = NoRet
    /\ observed = <<>>
    /\ raising = {}
    /\ ColIdle
    /\ InsIdle

NextLate ==
    \/ \E inst \in ModelInstances : RegisterModel(inst.cls, inst)
    \/ ResolveOneToOne
    \/ ResolveManyToOne
    \/ ResolveOneToMany
    \/ ResolveManyToMany

SpecLate == InitLate /\ [][NextLate]_vars

\* ------------------------------------------------------------------ columns
\* Column and two of its subclasses
ColumnTypes == {"Column", "IntegerColumn", "StringColumn"}

\* the generator argument of the constructor: None, or a function
GeneratorArgs == {"none", "custom"}

\* the values a custom generator returns
CustomValues == Keys

\* default_generator: None in Column, random.randint(min_value, max_value) in
\* IntegerColumn, a text in StringColumn
DefaultValues(type) ==
    CASE type = "IntegerColumn" -> Keys
      [] type = "StringColumn" -> {AnyValue}
      [] OTHER -> {NULL}

\* Column.__init__(nullable, unique, generator): no skip_generation parameter,
\* and the subclasses pass their **kwargs on to it
ConstructColumn(type, nullable, generator, kwarg_skip) ==
    /\ column' = IF kwarg_skip THEN column
                 ELSE [type |-> type, nullable |-> nullable, generator |-> generator,
                       skip_generation |-> FALSE]
    /\ gret' = [NoGRet EXCEPT !.op = "construct", !.kwarg_skip = kwarg_skip,
                  !.err = IF kwarg_skip THEN "TypeError" ELSE ""]
    /\ UNCHANGED <<dg_config, schema, prng, dgen, refVars, mgVars, relVars, raising,
                   insVars>>

\* column.skip_generation = True: the attribute data_inserter reads with getattr
SetSkipGeneration ==
    /\ column # NoColumn
    /\ column' = [column EXCEPT !.skip_generation = TRUE]
    /\ gret' = [NoGRet EXCEPT !.op = "setattr"]
    /\ UNCHANGED <<dg_config, schema, prng, dgen, refVars, mgVars, relVars, raising,
                   insVars>>

\* faulty variant: the generator runs before the nullability trial
Column_generate_GeneratorFirst(col) ==
    LET gen == IF col.generator = "custom"
               THEN {[value |-> v, inner |-> v, trial |-> FALSE,
                      calls |-> <<"generator">>] : v \in CustomValues}
               ELSE {[value |-> v, inner |-> v, trial |-> FALSE,
                      calls |-> <<"default_generator">>] :
                         v \in DefaultValues(col.type)}
    IN IF col.nullable
       THEN {[o EXCEPT !.value = NULL, !.trial = TRUE,
                       !.calls = Append(o.calls, "random")] : o \in gen}
            \cup {[o EXCEPT !.calls = Append(o.calls, "random")] : o \in gen}
       ELSE gen

\* Column.generate: the outcomes of one call.  random.random() is evaluated only
\* for a nullable column (`and` short-circuits); skip_generation is not read.
Column_generate(col) ==
    LET pre == IF col.nullable THEN <<"random">> ELSE <<>>
        null == IF col.nullable
                THEN {[value |-> NULL, inner |-> NULL, trial |-> TRUE, calls |-> pre]}
                ELSE {}
        gen == IF col.generator = "custom"
               THEN {[value |-> v, inner |-> v, trial |-> FALSE,
                      calls |-> Append(pre, "generator")] : v \in CustomValues}
               ELSE {[value |-> v, inner |-> v, trial |-> FALSE,
                      calls |-> Append(pre, "default_generator")] :
                         v \in DefaultValues(col.type)}
    IN null \cup gen

\* a direct call of column.generate()
ColumnGenerateCall ==
    /\ column # NoColumn
    /\ \E o \in Column_generate(column) :
          gret' = [NoGRet EXCEPT !.op = "generate", !.value = o.value,
                     !.inner = o.inner, !.trial = o.trial, !.calls = o.calls]
    /\ UNCHANGED <<column, dg_config, schema, prng, dgen, refVars, mgVars, relVars, raising,
                   insVars>>

\* TableModel.generate_row of a table model whose columns dict is {"c": column}
TableGenerateRow ==
    /\ column # NoColumn
    /\ \E o \in Column_generate(column) :
          gret' = [NoGRet EXCEPT !.op = "generate_row", !.calls = o.calls,
                     !.row = [c \in {"c"} |-> o.value]]
    /\ UNCHANGED <<column, dg_config, schema, prng, dgen, refVars, mgVars, relVars, raising,
                   insVars>>

\* ------------------------------------------------------------ DataGenerator
\* config["columns"]: two columns, in the order of the JSON object
DGColumns == {"id", "name"}

\* generator types: auto_increment returns None, random_int a number, faker a text
DGGeneratorTypes == {"auto_increment", "random_int", "faker"}

DGConfigs ==
    [DGColumns -> [nullable : BOOLEAN, primary_key : BOOLEAN,
                   generator : DGGeneratorTypes]]

\* DataGenerator._generate_value
generate_value(generator_type) ==
    CASE generator_type = "auto_increment" -> {NULL}
      [] generator_type = "random_int" -> Keys
      [] OTHER -> {AnyValue}

\* DataGenerator.generate_row, per column: the values the row can carry
DGColumnValues(col_config) ==
    (IF col_config.nullable THEN {NULL} ELSE {})
        \cup generate_value(col_config.generator)

\* DataGenerator.generate_row: primary-key columns are skipped, the others get
\* None on a successful nullability trial, else the generated value
DG_generate_row(config) ==
    LET emitted == {c \in DOMAIN config : ~config[c].primary_key}
    IN {r \in [emitted -> {NULL, AnyValue} \cup Keys] :
            \A c \in emitted : r[c] \in DGColumnValues(config[c])}

\* a call of DataGenerator.generate_row
DGGenerateRow ==
    /\ \E r \in DG_generate_row(dg_config) :
          gret' = [NoGRet EXCEPT !.op = "dg_generate_row", !.row = r]
    /\ UNCHANGED <<column, dg_config, schema, prng, dgen, refVars, mgVars, relVars, raising,
                   insVars>>

\* the relation salary_table.py declares
SalaryEmployeeRelation ==
    [kind |-> "ManyToOne", from_table |-> "salary", to_table |-> "employee",
     from_column |-> "employee_id", to_column |-> "id", config |-> DefaultConfig]

\* no registry or relation activity
RelIdle ==
    /\ models = [t \in TableNames |-> NoModel]
    /\ relation = SalaryEmployeeRelation
    /\ cached_data = EmptyCache
    /\ produced = {}
    /\ ret = NoRet
    /\ observed = NotObserved

InitColumns ==
    /\ column = NoColumn
    /\ dg_config \in DGConfigs
    /\ schema = <<>>
    /\ gret = NoGRet
    /\ prng = UnseededPrng
    /\ dgen = NoGenerators
    /\ RefIdle
    /\ MgIdle
    /\ RelIdle
    /\ raising = {}
    /\ InsIdle

NextColumns ==
    \/ \E type \in ColumnTypes, nullable \in BOOLEAN, generator \in GeneratorArgs,
          kwarg_skip \in BOOLEAN :
          ConstructColumn(type, nullable, generator, kwarg_skip)
    \/ SetSkipGeneration
    \/ ColumnGenerateCall
    \/ TableGenerateRow
    \/ DGGenerateRow

\* Column objects and the JSON-driven DataGenerator
SpecColumns == InitColumns /\ [][NextColumns]_vars

\* ------------------------------------------------ the two schema front-ends
\* the schema of a two-column table as get_table_schema returns it: per column
\* its nullability, its membership in the primary key constraint
\* (get_pk_constraint), whether the database assigns its value (serial,
\* identity, sequence default), and column_primary_key, the value of
\* column_info.get('primary_key', False) on its get_columns entry.  The
\* PostgreSQL dialect, the only one the connector accepts, puts no
\* 'primary_key' key into these entries; an inspector that does reports the
\* membership for every column.
Schemas ==
    {sch \in [DGColumns -> [nullable : BOOLEAN, primary_key : BOOLEAN,
                            auto_increment : BOOLEAN,
                            column_primary_key : BOOLEAN]] :
        \/ \A c \in DGColumns : ~sch[c].column_primary_key
        \/ \A c \in DGColumns : sch[c].column_primary_key = sch[c].primary_key}

\* TableConfigGenerator._guess_generator_type: a name column gets a faker
\* generator, an integer column random_int
guess_generator_type(c) == IF c = "name" THEN "faker" ELSE "random_int"

\* TableConfigGenerator.generate_table_config: every column with its guessed
\* generator, then every column of the primary key marked primary_key with
\* the auto_increment generator
generate_table_config(sch) ==
    [c \in DOMAIN sch |->
        [nullable |-> sch[c].nullable,
         primary_key |-> sch[c].primary_key,
         generator |-> IF sch[c].primary_key THEN "auto_increment"
                       ELSE guess_generator_type(c)]]

\* ModelGenerator._get_column_type_and_args: the columns whose generated
\* constructor call carries skip_generation=True, those with
\* `is_primary and is_auto_increment`, is_primary being read from the
\* get_columns entry
skip_generation_columns(sch) ==
    {c \in DOMAIN sch : sch[c].column_primary_key /\ sch[c].auto_increment}

\* the construction of the generated table model: a constructor call with
\* skip_generation=True raises TypeError in Column.__init__, which has no such
\* parameter
table_model_error(sch) ==
    IF skip_generation_columns(sch) # {} THEN "TypeError" ELSE ""

\* the columns the table-model path sends to insertion: none when the model
\* cannot be constructed; otherwise generate_row has a value for every column
\* and _prepare_data drops the columns that carry skip_generation
model_path_columns(sch) ==
    IF table_model_error(sch) # "" THEN {}
    ELSE DOMAIN sch \ skip_generation_columns(sch)

\* TableConfigGenerator.generate_table_config for the table, loaded by a
\* DataGenerator
GenerateTableConfig ==
    /\ schema # <<>>
    /\ dg_config' = generate_table_config(schema)
    /\ gret' = [NoGRet EXCEPT !.op = "generate_table_config"]
    /\ UNCHANGED <<column, schema, prng, dgen, refVars, mgVars, relVars, raising,
                   insVars>>

InitConfig ==
    /\ column = NoColumn
    /\ dg_config = <<>>
    /\ schema \in Schemas
    /\ gret = NoGRet
    /\ prng = UnseededPrng
    /\ dgen = NoGenerators
    /\ RefIdle
    /\ MgIdle
    /\ RelIdle
    /\ raising = {}
    /\ InsIdle

NextConfig ==
    \/ GenerateTableConfig
    \/ DGGenerateRow

\* a table schema, the JSON configuration generated from it and the rows the
\* DataGenerator produces from that configuration
SpecConfig == InitConfig /\ [][NextConfig]_vars

\* ------------------------------------------------ seeded DataGenerators
\* The module-level generator `random` is CPython's Mersenne Twister: after
\* random.seed(seed) its output is a fixed sequence of 32-bit words, and its
\* state is the seed together with the number of words drawn since.  The
\* table holds the upper 27 bits (word >> 5) of the first words of that
\* sequence for the seeds 0, 1, 2, ...; no draw of the program reads the
\* lower 5 bits.
MersenneTop27 ==
  <<
    \* random.seed(0)
    <<
      113336382, 51706749, 101730917, 119486516, 56448162, 5433721,
      34751217, 129582503, 68622131, 65220111, 54349339, 123243325,
      105199665, 111380971, 40709944, 129895916, 63967760, 48056573,
      78300211, 119676667, 121884848, 29318886, 67737923, 18693000,
      37827635, 18756361, 101442323, 12727969, 82996081, 107293997,
      33622391, 132507686, 122104075, 71479480, 131907233, 94646617,
      108745516, 80785928, 121086664, 19724825, 41627302, 13255791,
      97956359, 9897541, 120640032, 114148664, 91802769, 44318320,
      63369922, 75136920, 13515887, 47485068, 58273557, 42439202,
      81991861, 85956173, 122542269, 27444538, 129735710, 74158472,
      64023168, 59417296, 116139932, 69974900
    >>,
    \* random.seed(1)
    <<
      18034063, 76397250, 113740630, 107678193, 102512094, 8470054,
      34234785, 15826780, 66496171, 102134650, 60329669, 63383683,
      87455328, 50951092, 105860656, 28179657, 12597620, 65479012,
      3804733, 119898983, 112174493, 52319252, 58085012, 81528947,
      102311500, 102966154, 282669, 93393106, 59778857, 35746282,
      96843463, 107619313, 30703945, 79343270, 126872085, 13720696,
      120987545, 42604684, 4105718, 2996023, 3415285, 87180606,
      72667152, 1235465, 126050466, 118277206, 51164366, 92138303,
      29071478, 130062434, 56655527, 97422287, 3897788, 70817221,
      29754951, 102502212, 58772277, 126052863, 66546792, 74203556,
      31284065, 46399124, 30986382, 90845073
    >>,
    \* random.seed(2)
    <<
      128316747, 115844572, 127215251, 113958270, 7590196, 12292302,
      11391326, 48460313, 112138761, 22694018, 98780219, 108577047,
      89889692, 114599711, 41357375, 33766938, 81328449, 28483526,
      81443550, 4796195, 78007882, 91435315, 21257788, 134179985,
      57803500, 85694172, 52818946, 107866686, 97041038, 115460008,
      133522421, 68325876, 127425703, 49937087, 73038206, 125589096,
      59707318, 67386331, 36002662, 120958063, 4821681, 116908066,
      3683586, 48857189, 62396997, 125070327, 42743665, 121836157,
      51004739, 56856101, 119693954, 118657137, 70565342, 22077262,
      75230427, 23815115, 31691947, 30950967, 3202177, 23718954,
      43639945, 23298688, 18347213, 68473414
    >>,
    \* random.seed(3)
    <<
      31939071, 79542916, 73045210, 17505051, 49654541, 122936031,
      81056775, 63626388, 83982757, 77960647, 8795134, 81282193,
      1767377, 121979540, 112403197, 62979298, 34809906, 73925063,
      31451369, 25735457, 133633187, 96253980, 63117699, 72608285,
      112267955, 73770246, 63935045, 53302500, 85774273, 115564431,
      20215394, 31128044, 85209555, 20350410, 116507068, 124263533,
      70220193, 52336420, 99489140, 2032960, 90115322, 104318673,
      8594154, 21394297, 101767940, 128513081, 79336043, 5743046,
      40435460, 104700094, 4162326, 110537762, 116169099, 36162506,
      63451308, 79825928, 96478913, 123501330, 117952257, 52023943,
      95848836, 105778179, 123627770, 57302230
    >>,
    \* random.seed(4)
    <<
      31681838, 40708047, 13846710, 96800094, 53158037, 64273970,
      20800026, 12093050, 8927505, 2659816, 53900633, 73739467,
      123205840, 38839355, 107434895, 132878882, 102698386, 7898318,
      29786695, 69838754, 72031971, 48351253, 37135715, 104655676,
      23174640, 110980838, 14251680, 35127407, 28776338, 126561862,
      124483672, 3441299, 111255765, 85991773, 108267045, 34930720,
      107434290, 36473366, 25962489, 22121532, 41587357, 38874915,
      84151240, 116409941, 98233244, 128972896, 114708960, 113887671,
      118118412, 49981755, 11639126, 113385690, 81316063, 45285393,
      90154243, 52067331, 67907966, 33403241, 23862593, 33195026,
      63563890, 37580641, 11991844, 126779084
    >>,
    \* random.seed(5)
    <<
      83604450, 34285249, 99560964, 48121821, 106729073, 92670206,
      126493535, 112945689, 99307505, 87514212, 123792365, 71140745,
      3893015, 112789615, 62494814, 104147395, 126615195, 33427281,
      87103890, 6959625, 120916817, 21052228, 15194247, 49901259,
      62957381, 116560776, 33094445, 51104462, 72982347, 13686772,
      77033082, 33464602, 1760156, 98137817, 29088981, 54781107,
      37511488, 24437781, 122989793, 116428388, 102773930, 52269391,
      21421714, 102263899, 106991258, 9654514, 18625047, 82936648,
      82873074, 59704835, 17005283, 17749067, 238217, 130504901,
      116957965, 713117, 28112759, 103829989, 28921392, 128866077,
      131858329, 22260874, 117092588, 22345168
    >>
  >>

\* random.seed(seed): the state depends on the seed only
seed_state(seed) == [seed |-> seed, words |-> 0]

\* random.getrandbits(k), k <= 27, read off state x: the upper k bits of the
\* next word
getrandbits(x, k) == MersenneTop27[x.seed + 1][x.words + 1] \div 2^(27 - k)

\* the state after one random.random(), which draws two words
prng_next(x) == [x EXCEPT !.words = @ + 2]

\* random.random() < 0.1, read off state x.  random() is
\* ((a >> 5) * 2^26 + (b >> 6)) / 2^53 for the next two words a, b, and the
\* double 0.1 is 900719925474099.25 / 2^53, where
\* 900719925474099 = 13421772 * 2^26 + 53687091
null_trial(x) ==
    LET a == getrandbits(x, 27)
        b == getrandbits([x EXCEPT !.words = @ + 1], 26)
    IN a < 13421772 \/ (a = 13421772 /\ b <= 53687091)

\* Random._randbelow(n) on state x: k = n.bit_length(), then getrandbits(k),
\* one word each, until the result is below n; the value and the state after
RECURSIVE randbelow(_, _)
randbelow(x, n) ==
    LET k == CHOOSE b \in 1..27 : 2^(b - 1) <= n /\ n < 2^b
        r == getrandbits(x, k)
        drawn == [x EXCEPT !.words = @ + 1]
    IN IF r < n THEN [value |-> r, st |-> drawn] ELSE randbelow(drawn, n)

\* random.randint(min, max) with min = 1 and max = MaxKey, read off state x:
\* min + _randbelow(max - min + 1)
randint_at(x) == 1 + randbelow(x, MaxKey).value

\* fake.seed_instance(seed) gives the Faker instance a generator of its own,
\* whose state is the seed and the number of calls made since
faker_next(x) == [x EXCEPT !.words = @ + 1]

\* config["columns"].items(): the order of the JSON object
DGColumnOrder == <<"id", "name">>

\* DataGenerator._generate_value on generator states st: the value and the
\* states after the call
generate_value_at(generator_type, st) ==
    CASE generator_type = "auto_increment" -> [value |-> NULL, st |-> st]
      [] generator_type = "random_int" ->
            [value |-> randint_at(st.random),
             st |-> [st EXCEPT !.random = randbelow(@, MaxKey).st]]
      [] OTHER ->
            [value |-> AnyValue, st |-> [st EXCEPT !.faker = faker_next(@)]]

\* DataGenerator.generate_row on generator states st, after the first k
\* columns of the configuration: the row so far and the states reached
RECURSIVE generate_row_at(_, _, _)
generate_row_at(config, k, st) ==
    IF k = 0 THEN [row |-> <<>>, st |-> st]
    ELSE LET prev == generate_row_at(config, k - 1, st)
             c == DGColumnOrder[k]
         IN IF config[c].primary_key THEN prev
            ELSE IF config[c].nullable
            THEN LET drawn == [prev.st EXCEPT !.random = prng_next(@)] IN
                 IF null_trial(prev.st.random)
                 THEN [row |-> prev.row @@ (c :> NULL), st |-> drawn]
                 ELSE LET g == generate_value_at(config[c].generator, drawn)
                      IN [row |-> prev.row @@ (c :> g.value), st |-> g.st]
            ELSE LET g == generate_value_at(config[c].generator, prev.st)
                 IN [row |-> prev.row @@ (c :> g.value), st |-> g.st]

\* DataGenerator.generate_rows(count): [self.generate_row() for _ in range(count)]
RECURSIVE generate_rows_at(_, _, _)
generate_rows_at(config, count, st) ==
    IF count = 0 THEN [rows |-> <<>>, st |-> st]
    ELSE LET prev == generate_rows_at(config, count - 1, st)
             r == generate_row_at(config, Len(DGColumnOrder), prev.st)
         IN [rows |-> Append(prev.rows, r.row), st |-> r.st]

\* DataGenerator.__init__: random.seed(self.seed); fake.seed_instance(self.seed)
seed_on_init(st, seed) == [random |-> seed_state(seed), faker |-> seed_state(seed)]

\* DataGenerator(config_file)
ConstructGenerator(i) ==
    /\ ~dgen.inst[i].built
    /\ prng' = seed_on_init(prng, dgen.seed)
    /\ dgen' = [dgen EXCEPT !.inst[i] = [NoInstance EXCEPT !.built = TRUE,
                                                           !.fresh = TRUE]]
    /\ gret' = [NoGRet EXCEPT !.op = "construct_generator"]
    /\ UNCHANGED <<column, dg_config, schema, refVars, mgVars, relVars, raising,
                   insVars>>

\* generator.generate_rows(count), once per instance; every draw it makes
\* ends the freshness of all instances
DGGenerateRows(i, count) ==
    /\ dgen.inst[i].built
    /\ ~dgen.inst[i].generated
    /\ \E o \in {generate_rows_at(dg_config, count, prng)} :
          /\ prng' = o.st
          /\ dgen' = [dgen EXCEPT
                !.inst = [j \in DGInstances |->
                            IF j = i
                            THEN [built |-> TRUE, fresh |-> FALSE,
                                  generated |-> TRUE,
                                  was_fresh |-> dgen.inst[i].fresh,
                                  count |-> count, out |-> o.rows]
                            ELSE [dgen.inst[j] EXCEPT !.fresh = FALSE]]]
          /\ gret' = [NoGRet EXCEPT !.op = "dg_generate_rows"]
    /\ UNCHANGED <<column, dg_config, schema, refVars, mgVars, relVars, raising,
                   insVars>>

InitSeed ==
    /\ column = NoColumn
    /\ dg_config \in DGConfigs
    /\ schema = <<>>
    /\ gret = NoGRet
    /\ prng = UnseededPrng
    /\ dgen \in {[NoGenerators EXCEPT !.seed = s] : s \in 0..MaxSeed}
    /\ RefIdle
    /\ MgIdle
    /\ RelIdle
    /\ raising = {}
    /\ InsIdle

NextSeed ==
    \/ \E i \in DGInstances : ConstructGenerator(i)
    \/ \E i \in DGInstances, count \in 0..MaxSeededRows : DGGenerateRows(i, count)

\* DataGenerator instances built from one configuration with one seed
SpecSeed == InitSeed /\ [][NextSeed]_vars

\* ---------------------------------------------------------- ReferenceColumn
\* ReferenceColumn.__init__ and TableModel._setup_foreign_keys: nullable and
\* generator as for any Column, db_connector present or None
RefColumns ==
    [nullable : BOOLEAN, generator : GeneratorArgs, db_connector : BOOLEAN]

\* faulty variant: the referenced table is queried whenever a connector is present
needs_fetch_Always(cache, connector) == connector

\* `if not self._cached_values and self.db_connector`
needs_fetch(cache, connector) == cache = {} /\ connector

\* ReferenceColumn._get_existing_values on referenced table `table`: the
\* SELECT (LIMIT 100, more than the table holds) extends the cache, or the
\* connection or the query raises
get_existing_values(cache, connector, table) ==
    IF needs_fetch(cache, connector)
    THEN {[err |-> "", cache |-> cache \cup table, calls |-> <<"fetch">>,
           read |-> table],
          [err |-> "DBError", cache |-> cache, calls |-> <<"fetch">>,
           read |-> {}]}
    ELSE {[err |-> "", cache |-> cache, calls |-> <<>>, read |-> {}]}

\* faulty variant: `from .db_operations import DatabaseOperations` resolves,
\* the table model of the referenced table is built and asked for a row,
\* which can raise (and does without a connector); the row is inserted with a
\* key the table does not hold yet, in
\* `with engine.connect() as conn: with conn.begin(): ...` (connect() or
\* execute() can raise, and the row is committed when the block is left
\* without an exception), and the returned key is added to the cache inside
\* the transaction, before the commit
create_referenced_row_Imported(cache, connector, table) ==
    {[err |-> "ModelError", cache |-> cache, table |-> table, value |-> NULL,
      calls |-> <<>>, inserted |-> {}]}
    \cup
    (IF connector
     THEN {[err |-> "DBError", cache |-> cache, table |-> table, value |-> NULL,
            calls |-> IF kind = "connect_error" THEN <<>> ELSE <<"insert">>,
            inserted |-> {}] : kind \in {"connect_error", "execute_error"}}
          \cup
          UNION {{[err |-> IF kind = "ok" THEN "" ELSE "DBError",
                   cache |-> cache \cup {v},
                   table |-> IF kind = "ok" THEN table \cup {v} ELSE table,
                   value |-> IF kind = "ok" THEN v ELSE NULL,
                   calls |-> <<"insert">>,
                   inserted |-> IF kind = "ok" THEN {v} ELSE {}] :
                      kind \in {"ok", "commit_error"}} : v \in Keys \ table}
     ELSE {})

\* ReferenceColumn._create_referenced_row: its second statement,
\* `from .db_operations import DatabaseOperations`, names a module the
\* package core does not have (DatabaseOperations is defined in
\* core/database/db_operations.py), so every call raises ModuleNotFoundError
\* before a model is built or a statement is sent: no row is inserted and
\* the cache stays as it was
create_referenced_row(cache, connector, table) ==
    {[err |-> "ModuleNotFoundError", cache |-> cache, table |-> table,
      value |-> NULL, calls |-> <<>>, inserted |-> {}]}

\* ReferenceColumn.default_generator
Reference_default_generator(cache, connector, table) ==
    UNION {IF f.err # ""
           THEN {[err |-> f.err, cache |-> f.cache, table |-> table,
                  value |-> NULL, calls |-> f.calls, read |-> f.read,
                  inserted |-> {}]}
           ELSE IF f.cache = {}
           THEN {[err |-> c.err, cache |-> c.cache, table |-> c.table,
                  value |-> c.value, calls |-> f.calls \o c.calls,
                  read |-> f.read, inserted |-> c.inserted] :
                     c \in create_referenced_row(f.cache, connector, table)}
           ELSE {[err |-> "", cache |-> f.cache, table |-> table, value |-> v,
                  calls |-> f.calls, read |-> f.read, inserted |-> {}] :
                     v \in f.cache} :
             f \in get_existing_values(cache, connector, table)}

\* Column.generate of a ReferenceColumn: the null gate, the custom generator,
\* else the default generator above
Reference_generate(col, cache, table) ==
    (IF col.nullable
     THEN {[err |-> "", cache |-> cache, table |-> table, value |-> NULL,
            calls |-> <<>>, read |-> {}, inserted |-> {}, trial |-> TRUE]}
     ELSE {})
    \cup
    (IF col.generator = "custom"
     THEN {[err |-> "", cache |-> cache, table |-> table, value |-> v,
            calls |-> <<>>, read |-> {}, inserted |-> {}, trial |-> FALSE] :
               v \in CustomValues}
     ELSE {[err |-> o.err, cache |-> o.cache, table |-> o.table,
            value |-> o.value, calls |-> o.calls, read |-> o.read,
            inserted |-> o.inserted, trial |-> FALSE] :
               o \in Reference_default_generator(cache, col.db_connector, table)})

\* a call of generate() on the ReferenceColumn
ReferenceGenerate ==
    /\ \E o \in Reference_generate(refcol, cached_values, referenced) :
          /\ gret' = [NoGRet EXCEPT !.op = "ref_generate", !.err = o.err,
                        !.value = o.value, !.trial = o.trial, !.calls = o.calls]
          /\ cached_values' = o.cache
          /\ referenced' = o.table
          /\ ref_hist' = [read |-> ref_hist.read \cup o.read,
                          inserted |-> ref_hist.inserted \cup o.inserted,
                          rows_inserted |->
                              ref_hist.rows_inserted + Cardinality(o.inserted)]
    /\ UNCHANGED <<refcol, column, dg_config, schema, prng, dgen, mgVars>>
    /\ UNCHANGED <<relVars, raising, insVars>>

\* a fresh ReferenceColumn and a referenced table with any rows
InitReference ==
    /\ refcol \in RefColumns
    /\ cached_values = {}
    /\ referenced \in SUBSET Keys
    /\ ref_hist = NoRefHistory
    /\ MgIdle
    /\ column = NoColumn
    /\ dg_config = <<>>
    /\ schema = <<>>
    /\ gret = NoGRet
    /\ prng = UnseededPrng
    /\ dgen = NoGenerators
    /\ RelIdle
    /\ raising = {}
    /\ InsIdle

NextReference == ReferenceGenerate

SpecReference == InitReference /\ [][NextReference]_vars

\* ----------------------------------------------------------- ModelGenerator
\* the sequences over S of length at most n
SeqsUpTo(S, n) == UNION {[1..k -> S] : k \in 0..n}

\* the column lists a key or a constraint can have
ColumnLists ==
    {<<"employee_id">>, <<"from_date">>, <<"employee_id", "from_date">>,
     <<"from_date", "employee_id">>}

\* an entry of inspector.get_foreign_keys: the constrained columns, the
\* referred table (possibly the table itself) and as many referred columns
ForeignKeyInfos ==
    {[constrained_columns |-> c, referred_table |-> t,
      referred_columns |-> SubSeq(<<"id", "since">>, 1, Len(c))] :
         c \in ColumnLists, t \in TableNames}

\* the schemas under study: unique constraints and primary key of the analysed
\* table (no primary key is the empty list), its foreign keys, and at most one
\* single-column foreign key of any other table
Inspectors ==
    {[unique_constraints |-> u, pk_constraint |-> pk,
      foreign_keys |-> [t \in TableNames |->
                           IF t = AnalysedTable THEN own ELSE other]] :
         u \in SUBSET {<<"employee_id">>, <<"from_date", "employee_id">>},
         pk \in {<<>>, <<"from_date">>, <<"employee_id", "from_date">>},
         own \in SeqsUpTo(ForeignKeyInfos, MaxForeignKeys),
         other \in SeqsUpTo({fk \in ForeignKeyInfos :
                                 fk.constrained_columns = <<"employee_id">>}, 1)}

\* faulty variant: the reverse foreign key is looked at before uniqueness
detect_relationship_type_ReverseFirst(insp, table_name, fk_info) ==
    LET fks_to == insp.foreign_keys[fk_info.referred_table]
        fk_columns == fk_info.constrained_columns
        is_unique ==
            \/ \E const \in insp.unique_constraints :
                  Range(fk_columns) = Range(const)
            \/ Range(fk_columns) = Range(insp.pk_constraint)
        has_reverse_relation ==
            \E i \in 1..Len(fks_to) : fks_to[i].referred_table = table_name
    IN  IF has_reverse_relation
        THEN IF Len(fk_columns) > 1 THEN "ManyToMany" ELSE "OneToMany"
        ELSE IF is_unique THEN "OneToOne" ELSE "ManyToOne"

\* ModelGenerator._detect_relationship_type; the value is the RelationType
detect_relationship_type(insp, table_name, fk_info) ==
    LET referred_table == fk_info.referred_table
        constraints_from == insp.unique_constraints
        pk_from == insp.pk_constraint
        fks_to == insp.foreign_keys[referred_table]
        fk_columns == fk_info.constrained_columns
        is_unique ==
            \/ \E const \in constraints_from : Range(fk_columns) = Range(const)
            \/ Range(fk_columns) = Range(pk_from)
        has_reverse_relation ==
            \E i \in 1..Len(fks_to) : fks_to[i].referred_table = table_name
    IN  IF is_unique THEN "OneToOne"
        ELSE IF has_reverse_relation
        THEN IF Len(fk_columns) > 1 THEN "ManyToMany" ELSE "OneToMany"
        ELSE "ManyToOne"

\* the relation object the if/elif chain of _analyze_relationships builds for
\* a detected type: its class, and for ManyToManyRelation the junction table
relation_for(rel_type, table_name, fk) ==
    [class |-> IF rel_type = "OneToOne" THEN "OneToOneRelation"
               ELSE IF rel_type = "ManyToOne" THEN "ManyToOneRelation"
               ELSE IF rel_type = "OneToMany" THEN "OneToManyRelation"
               ELSE "ManyToManyRelation",
     from_table |-> table_name,
     to_table |-> fk.referred_table,
     junction_table |-> IF rel_type \in {"OneToOne", "ManyToOne", "OneToMany"}
                        THEN "" ELSE table_name,
     from_column |-> fk.constrained_columns[1],
     to_column |-> fk.referred_columns[1]]

\* ModelGenerator._analyze_relationships: one relation per foreign key, in order
analyze_relationships(insp, table_name) ==
    LET foreign_keys == insp.foreign_keys[table_name]
    IN  [i \in 1..Len(foreign_keys) |->
            relation_for(detect_relationship_type(insp, table_name,
                                                  foreign_keys[i]),
                         table_name, foreign_keys[i])]

\* a call of _analyze_relationships for the analysed table
AnalyzeRelationships ==
    /\ relationships' =
           [analysed |-> TRUE,
            list |-> analyze_relationships(inspector, AnalysedTable)]
    /\ UNCHANGED <<inspector, column, dg_config, schema, gret, prng, dgen,
                   refVars>>
    /\ UNCHANGED <<relVars, raising, insVars>>

\* any schema, nothing analysed yet
InitAnalyze ==
    /\ inspector \in Inspectors
    /\ relationships = NotAnalysed
    /\ RefIdle
    /\ column = NoColumn
    /\ dg_config = <<>>
    /\ schema = <<>>
    /\ gret = NoGRet
    /\ prng = UnseededPrng
    /\ dgen = NoGenerators
    /\ RelIdle
    /\ raising = {}
    /\ InsIdle

NextAnalyze == AnalyzeRelationships

SpecAnalyze == InitAnalyze /\ [][NextAnalyze]_vars

\* ---------------------------------------------------------------- insertion
\* the TableModel instances handed to the inserter, with the attributes
\* insert_table_data reads
InsertModels ==
    [cls : TableNames, rows_per_table : 1..MaxInsertRows,
     batch_size : 1..MaxBatchSize]

\* the lists of at most n entries over the models of set S
RECURSIVE ListsUpTo(_, _)
ListsUpTo(S, n) ==
    IF n = 0 THEN {<<>>}
    ELSE ListsUpTo(S, n - 1)
         \cup {Append(l, m) : l \in {x \in ListsUpTo(S, n - 1) : Len(x) = n - 1},
                               m \in S}

\* the input lists of insert_tables, as insert_data.py builds them: every model
\* is constructed with the defaults of the one config.json, and the --rows and
\* --batch-size overrides are assigned to every model of the list, so the
\* models of one run agree on rows_per_table and batch_size
InsertLists ==
    UNION {ListsUpTo({m \in InsertModels : m.rows_per_table = n /\ m.batch_size = b},
                     MaxTables) :
              n \in 1..MaxInsertRows, b \in 1..MaxBatchSize}

\* the columns built as DateTimeColumn, whose generators return datetime objects
DateTimeColumns == {"birth_date", "hire_date", "from_date", "to_date"}

\* datetime.isoformat(): the text of datetime v, which is not the datetime v
IsoBase == 100
isoformat(v) == IsoBase + v

\* DataInserter._format_value, for the value v of column c: a datetime is
\* replaced by its isoformat text, any other value is passed through
format_value(c, v) ==
    IF c \in DateTimeColumns /\ v # NULL THEN isoformat(v) ELSE v

\* faulty variant: the skip_generation flag is not consulted
included_columns_All(inst, flags) == ColumnOrder(inst.cls)

\* [name for name, col in columns.items() if not getattr(col, 'skip_generation', False)]
included_columns(inst, flags) ==
    SelectSeq(ColumnOrder(inst.cls), LAMBDA c : c \notin flags)

\* DataInserter._prepare_data: one new mapping per row, restricted to the
\* included columns, every value formatted
prepare_data(data, inst, flags) ==
    LET included == Range(included_columns(inst, flags)) IN
    [i \in 1..Len(data) |->
        [k \in (DOMAIN data[i]) \cap included |-> format_value(k, data[i][k])]]

\* what can happen inside `with self.engine.begin() as conn: conn.execute(...)`
\* for a payload of n rows: success, or an exception raised by begin(), by
\* execute() after `done` rows of the statement were applied, or by the commit
DBOutcomes(n) ==
    {[kind |-> "ok", done |-> n], [kind |-> "connect_error", done |-> 0],
     [kind |-> "commit_error", done |-> n]}
    \cup {[kind |-> "execute_error", done |-> k] : k \in 0..(n - 1)}

\* faulty variant: every row is committed as soon as it is executed
engine_begin_Autocommit(outcome) ==
    [ok |-> outcome.kind = "ok",
     acquired |-> IF outcome.kind = "connect_error" THEN 0 ELSE 1,
     released |-> IF outcome.kind = "connect_error" THEN 0 ELSE 1,
     committed |-> outcome.done]

\* Engine.begin() as a context manager: a connection is acquired and a
\* transaction begun; without an exception the transaction is committed, with
\* one it is rolled back; the connection is closed on both exits
engine_begin(outcome) ==
    [ok |-> outcome.kind = "ok",
     acquired |-> IF outcome.kind = "connect_error" THEN 0 ELSE 1,
     released |-> IF outcome.kind = "connect_error" THEN 0 ELSE 1,
     committed |-> IF outcome.kind = "ok" THEN outcome.done ELSE 0]

\* faulty variant: batch_size rows are requested whatever remains
remaining_WholeBatch(batch_size, total_rows, inserted) == batch_size

\* remaining = min(batch_size, total_rows - rows_inserted)
remaining(batch_size, total_rows, inserted) ==
    Min(batch_size, total_rows - inserted)

\* faulty variant: a failed batch is logged and the loop goes on
stops_on_Never(batch_ok) == FALSE

\* `if not self.insert_batch(...): return False`
stops_on(batch_ok) == ~batch_ok

\* faulty variant: the first failed table ends the run
next_table_StopOnFailure(n, i, success) == IF success THEN i + 1 ELSE n + 1

\* `for table in tables`: the position after table i of n, whatever its result
next_table(n, i, success) == i + 1

\* no transaction: nothing acquired, nothing committed
NoTransaction == [ok |-> TRUE, acquired |-> 0, released |-> 0, committed |-> 0]

\* DataInserter.insert_batch: an empty batch returns True without a write;
\* otherwise the prepared batch is written in one transaction, and any
\* exception is caught and turned into False
insert_batch(data, inst, flags, outcome) ==
    IF data = <<>>
    THEN [ok |-> TRUE, wrote |-> FALSE, payload |-> <<>>, column_list |-> <<>>,
          tx |-> NoTransaction]
    ELSE [ok |-> engine_begin(outcome).ok, wrote |-> TRUE,
          payload |-> prepare_data(data, inst, flags),
          column_list |-> included_columns(inst, flags),
          tx |-> engine_begin(outcome)]

\* the iterations of the loop of one insert_table_data call that are followed:
\* one more than the largest number of rows
MaxGenCalls == MaxInsertRows + 1

\* insert_tables reaches a table of its list and calls insert_table_data,
\* which reads the model's attributes and enters its loop
InsertTableDataBegin ==
    /\ phase = "idle"
    /\ tix <= Len(tables)
    /\ phase' = "loop"
    /\ rows_inserted' = 0
    /\ attempts' = Append(attempts,
                       [model |-> tables[tix], result |-> "running",
                        gen_calls |-> 0, rows_inserted |-> 0, raised |-> FALSE])
    /\ UNCHANGED <<tables, flagged, tix, results, writes, persisted, open_conns,
                   call>>
    /\ UNCHANGED <<relVars, raising, colVars>>

\* faulty variant: the exception leaves insert_table_data and ends the loop of
\* insert_tables
after_generation_error_Escapes(n, i) == n + 1

\* an exception raised by generate_rows inside insert_table_data is caught by
\* its `except Exception`, False is returned, and the loop of insert_tables
\* goes on: the position after table i of n
after_generation_error(n, i) == next_table(n, i, FALSE)

\* one iteration of the loop of insert_table_data: generate_rows(remaining),
\* then insert_batch; a False ends insert_table_data with False, which
\* insert_tables stores before it goes on to the next table.  When
\* generate_rows raises, nothing is written and insert_table_data returns False.
InsertTableDataIterate ==
    /\ phase = "loop"
    /\ rows_inserted < tables[tix].rows_per_table
    /\ attempts[Len(attempts)].gen_calls < MaxGenCalls
    /\ LET inst == tables[tix]
           a == Len(attempts)
           n == remaining(inst.batch_size, inst.rows_per_table, rows_inserted)
       IN \/ /\ may_raise(inst)
             /\ attempts' = [attempts EXCEPT ![a].gen_calls = @ + 1,
                                             ![a].result = "failed",
                                             ![a].raised = TRUE]
             /\ phase' = "idle"
             /\ results' = [results EXCEPT ![inst.cls] = "failed"]
             /\ tix' = after_generation_error(Len(tables), tix)
             /\ UNCHANGED <<writes, persisted, open_conns, rows_inserted>>
          \/ \E batch_data \in generate_rows(inst, n) :
             \E outcome \in DBOutcomes(Len(batch_data)) :
             \E b \in {insert_batch(batch_data, inst, flagged, outcome)} :
               LET done == stops_on(b.ok)
               IN /\ writes' =
                        IF b.wrote
                        THEN Append(writes,
                               [attempt |-> a, table |-> inst.cls,
                                before |-> rows_inserted, requested |-> n,
                                rows |-> Len(b.payload),
                                row_keys |-> {DOMAIN b.payload[i] :
                                                 i \in 1..Len(b.payload)},
                                column_list |-> b.column_list,
                                outcome |-> outcome.kind, executed |-> outcome.done,
                                ok |-> b.ok, committed |-> b.tx.committed])
                        ELSE writes
                  /\ persisted' = [persisted EXCEPT ![inst.cls] = @ + b.tx.committed]
                  /\ open_conns' = open_conns + b.tx.acquired - b.tx.released
                  /\ rows_inserted' =
                        IF b.ok THEN rows_inserted + Len(batch_data) ELSE rows_inserted
                  /\ attempts' = [attempts EXCEPT
                        ![a].gen_calls = @ + 1,
                        ![a].rows_inserted = rows_inserted',
                        ![a].result = IF done THEN "failed" ELSE @]
                  /\ phase' = IF done THEN "idle" ELSE "loop"
                  /\ results' = IF done THEN [results EXCEPT ![inst.cls] = "failed"]
                                ELSE results
                  /\ tix' = IF done THEN next_table(Len(tables), tix, FALSE) ELSE tix
    /\ UNCHANGED <<tables, flagged, call>>
    /\ UNCHANGED <<relVars, raising, colVars>>

\* the loop condition fails: insert_table_data returns True, insert_tables
\* stores the result and goes on
InsertTableDataReturn ==
    /\ phase = "loop"
    /\ rows_inserted >= tables[tix].rows_per_table
    /\ attempts' = [attempts EXCEPT ![Len(attempts)].result = "ok"]
    /\ results' = [results EXCEPT ![tables[tix].cls] = "ok"]
    /\ tix' = next_table(Len(tables), tix, TRUE)
    /\ phase' = "idle"
    /\ UNCHANGED <<tables, flagged, rows_inserted, writes, persisted, open_conns,
                   call>>
    /\ UNCHANGED <<relVars, raising, colVars>>

\* the list is exhausted: insert_tables returns results
InsertTablesReturn ==
    /\ phase = "idle"
    /\ tix > Len(tables)
    /\ phase' = "done"
    /\ UNCHANGED <<tables, flagged, tix, rows_inserted, results, attempts, writes,
                   persisted, open_conns, call>>
    /\ UNCHANGED <<relVars, raising, colVars>>

InitInsert ==
    /\ tables \in InsertLists
    /\ flagged \in SUBSET KeyColumns
    /\ tix = 1
    /\ phase = "idle"
    /\ rows_inserted = 0
    /\ results = NoResults
    /\ attempts = <<>>
    /\ writes = <<>>
    /\ persisted = EmptyDatabase
    /\ open_conns = 0
    /\ call = NoCall
    /\ RelIdle
    /\ raising = {}
    /\ ColIdle

NextInsert ==
    \/ InsertTableDataBegin
    \/ InsertTableDataIterate
    \/ InsertTableDataReturn
    \/ InsertTablesReturn

\* BatchInserter.insert_tables over a list of table models
SpecInsert == InitInsert /\ [][NextInsert]_vars

\* insert_tables over table models whose column generators can raise on any
\* call; no column is flagged
InitInsertRaise ==
    /\ tables \in InsertLists
    /\ flagged = {}
    /\ tix = 1
    /\ phase = "idle"
    /\ rows_inserted = 0
    /\ results = NoResults
    /\ attempts = <<>>
    /\ writes = <<>>
    /\ persisted = EmptyDatabase
    /\ open_conns = 0
    /\ call = NoCall
    /\ RelIdle
    /\ raising = TableNames
    /\ ColIdle

SpecInsertRaise == InitInsertRaise /\ [][NextInsert]_vars

\* ----------------------------------------- the values a model can be given
\* the smallest integer passed as an argument
MinArg == -1

\* the arguments of TableModel(rows_per_table=..., batch_size=...) and of
\* --rows and --batch-size (type=int), None included
ArgValues(max) == {CountNone} \cup MinArg..max

\* `rows_per_table or default`, `batch_size or default`: None and 0 give the
\* default of config.json
or_default(value, default) ==
    IF value = CountNone \/ value = 0 THEN default ELSE value

\* `if args.rows: model.rows_per_table = args.rows`, likewise --batch-size
override(current, arg) ==
    IF arg = CountNone \/ arg = 0 THEN current ELSE arg

\* the attribute values the constructor followed by the command-line override
\* can leave, the defaults of config.json being positive
AssignedValues(max) ==
    {override(or_default(v, d), a) :
        v \in ArgValues(max), d \in 1..max, a \in ArgValues(max)}

\* the models insert_data.py can hand to the inserter
AssignedModels ==
    [cls : TableNames, rows_per_table : AssignedValues(MaxInsertRows),
     batch_size : AssignedValues(MaxBatchSize)]

\* insert_tables over one table model with any assignable rows_per_table and
\* batch_size
InitInsertAny ==
    /\ tables \in {<<m>> : m \in AssignedModels}
    /\ flagged = {}
    /\ tix = 1
    /\ phase = "idle"
    /\ rows_inserted = 0
    /\ results = NoResults
    /\ attempts = <<>>
    /\ writes = <<>>
    /\ persisted = EmptyDatabase
    /\ open_conns = 0
    /\ call = NoCall
    /\ RelIdle
    /\ raising = {}
    /\ ColIdle

SpecInsertAny == InitInsertAny /\ [][NextInsert]_vars

\* ------------------------------------------- direct calls of the inserter
\* the batches a caller can hand over: lists of at most MaxBatchSize rows that
\* generate_row of the table model returned, every column present
Batches(inst) ==
    UNION {[1..n -> generate_row(inst)] : n \in 0..MaxBatchSize}

\* faulty variant: the rows of the argument are filtered and formatted in place
data_after_prepare_InPlace(data, inst, flags) == prepare_data(data, inst, flags)

\* the argument list of _prepare_data as the caller sees it after the call:
\* the method reads row.items() and assigns only to its own prepared_row and
\* prepared_data
data_after_prepare(data, inst, flags) == data

\* the table models the direct calls are made with: one per table class, the
\* two methods read only the columns of the model
BatchModels == {m \in InsertModels : m.rows_per_table = 1 /\ m.batch_size = 1}

\* a direct call of DataInserter._prepare_data
PrepareDataCall(inst, data) ==
    /\ call' = [NoCall EXCEPT !.op = "_prepare_data", !.table = inst.cls,
                  !.data_before = data,
                  !.data_after = data_after_prepare(data, inst, flagged),
                  !.payload = prepare_data(data, inst, flagged)]
    /\ UNCHANGED <<tables, flagged, tix, phase, rows_inserted, results, attempts,
                   writes, persisted, open_conns>>
    /\ UNCHANGED <<relVars, raising, colVars>>

\* a direct call of DataInserter.insert_batch, on an empty database
InsertBatchCall(inst, data) ==
    /\ persisted = EmptyDatabase
    /\ \E outcome \in DBOutcomes(Len(data)) :
       \E b \in {insert_batch(data, inst, flagged, outcome)} :
          /\ call' = [NoCall EXCEPT !.op = "insert_batch", !.table = inst.cls,
                        !.data_before = data,
                        !.data_after =
                            IF b.wrote THEN data_after_prepare(data, inst, flagged)
                            ELSE data,
                        !.payload = b.payload, !.ok = b.ok]
          /\ persisted' = [persisted EXCEPT ![inst.cls] = @ + b.tx.committed]
          /\ open_conns' = open_conns + b.tx.acquired - b.tx.released
    /\ UNCHANGED <<tables, flagged, tix, phase, rows_inserted, results, attempts,
                   writes>>
    /\ UNCHANGED <<relVars, raising, colVars>>

\* the inserter called on batches of generated rows, no run of insert_tables
InitBatch ==
    /\ tables = <<>>
    /\ flagged \in SUBSET KeyColumns
    /\ tix = 1
    /\ phase = "idle"
    /\ rows_inserted = 0
    /\ results = NoResults
    /\ attempts = <<>>
    /\ writes = <<>>
    /\ persisted = EmptyDatabase
    /\ open_conns = 0
    /\ call = NoCall
    /\ RelIdle
    /\ raising = {}
    /\ ColIdle

NextBatch ==
    \/ \E inst \in BatchModels : \E data \in Batches(inst) :
          PrepareDataCall(inst, data)
    \/ \E inst \in BatchModels : \E data \in Batches(inst) :
          InsertBatchCall(inst, data)

SpecBatch == InitBatch /\ [][NextBatch]_vars

\* ================================================================== claims
ToTable == relation.to_table
Pool == cached_data[relation.to_table]
Resolved == ret.op = "generate_related_data" /\ ret.err = ""

\* C1: every from_column value of every row that generate_rows returns for a
\* table with a ManyToOne relation is a key that was generated for the
\* referenced table or is held in the relation's pool.
C1_ReferentialIntegrity ==
    (/\ ret.op = "generate_rows"
     /\ relation.kind = "ManyToOne"
     /\ DeclaredRelations(ret.target, relation) # {})
    => \A i \in 1..Len(ret.rows) :
          ret.rows[i][relation.from_column] \in produced \cup Range(Pool)

\* C2: for a ManyToOne relation the pool never holds more than pool_size
\* entries, and a returned value is an element of the pool at return.
C2_PoolBoundAndMembership ==
    relation.kind = "ManyToOne"
    => /\ Len(Pool) <= relation.config.pool_size
       /\ Resolved => ret.scalar \in Range(Pool)

\* C3: generate_row generates every non-relational column, and afterwards
\* resolves each relation of the table exactly once; no resolution precedes
\* a non-relational column.
C3_RelationsResolvedAfterColumns ==
    (ret.op = "generate_row" /\ DeclaredRelations(ret.target, relation) # {})
    => LET tr == ret.trace
           rels == DeclaredRelations(ret.target, relation)
           fromCols == {r.from_column : r \in rels}
       IN /\ \A c \in ColumnNames(ret.target) \ fromCols :
                \E i \in 1..Len(tr) : tr[i] = <<"column", c>>
          /\ \A r \in rels :
                Cardinality({i \in 1..Len(tr) : tr[i] = <<"resolve", r.from_column>>}) = 1
          /\ \A i, j \in 1..Len(tr) :
                (tr[i][1] = "resolve" /\ tr[j][1] = "column") => j < i

\* C4: the list a OneToMany resolution returns has between min_related and
\* max_related entries, one per row generated in the referenced table.
C4_OneToManyLength ==
    (relation.kind = "OneToMany" /\ Resolved)
    => /\ Len(ret.list) >= relation.config.min_related
       /\ Len(ret.list) <= relation.config.max_related
       /\ Len(ret.list) = ret.ngen

\* C5: generate_rows(0) returns the empty sequence and invokes no row generator.
C5_ZeroRowsNoEffect ==
    (ret.op = "generate_rows" /\ ret.count = 0)
    => ret.rows = <<>> /\ ret.ngen = 0

\* C6: a OneToOne resolution generates exactly one row of the referenced table
\* and returns that row's to_column value, and the relation's cache is never
\* written: it stays empty whatever the sequence of calls.
C6_OneToOneFresh ==
    relation.kind = "OneToOne"
    => /\ cached_data = EmptyCache
       /\ Resolved =>
            /\ ret.ngen = 1
            /\ Len(ret.rows) = 1
            /\ ret.rows[1] \in RowsOfClass[ToTable]
            /\ ret.scalar = ret.rows[1][relation.to_column]

C6_Witness ==
    /\ relation.kind = "OneToOne"
    /\ Resolved
    /\ ret.scalar = MaxKey
    /\ produced = Keys

\* C7: a ManyToMany resolution draws a count c in [min_related, max_related]
\* and returns min(c, size of the pool) values taken from pairwise different
\* positions of the pool.
C7_ManyToManySample ==
    (relation.kind = "ManyToMany" /\ Resolved)
    => /\ ret.drawn >= relation.config.min_related
       /\ ret.drawn <= relation.config.max_related
       /\ Len(ret.list) = Min(ret.drawn, Len(Pool))
       /\ Len(ret.positions) = Len(ret.list)
       /\ \A i \in 1..Len(ret.list) :
            /\ ret.positions[i] \in 1..Len(Pool)
            /\ ret.list[i] = Pool[ret.positions[i]]
       /\ \A i, j \in 1..Len(ret.list) :
            i # j => ret.positions[i] # ret.positions[j]

\* two equal keys from two different positions of the pool
C7_Witness ==
    /\ relation.kind = "ManyToMany"
    /\ Resolved
    /\ Len(ret.list) = 2
    /\ ret.list[1] = ret.list[2]

\* C8: with cache_existing enabled a ManyToOne or ManyToMany resolution that
\* finds a populated pool leaves it unchanged and generates no row; a
\* resolution that returns has rebuilt the pool exactly when the pool was
\* empty or cache_existing is disabled; between resolutions only clear_cache
\* changes the pool.
C8_Step ==
    /\ (/\ relation.kind \in {"ManyToOne", "ManyToMany"}
        /\ ret'.op = "generate_related_data"
        /\ ret'.err = "")
       => IF Pool # <<>> /\ relation.config.cache_existing
          THEN cached_data' = cached_data /\ ret'.ngen = 0 /\ ~ret'.rebuilt
          ELSE /\ ret'.rebuilt
               /\ ret'.ngen = Len(ret'.rows)
               /\ relation.config.pool_size >= 0 => ret'.ngen > 0
               /\ cached_data'[ToTable] = KeysOf(ret'.rows, relation.to_column)
    /\ ret'.op \notin {"generate_related_data", "clear_cache", "clear_caches"}
       => cached_data' = cached_data

C8_PoolReused == [][C8_Step]_vars

\* a resolution served from the populated pool
C8_Witness ==
    /\ relation.kind \in {"ManyToOne", "ManyToMany"}
    /\ relation.config.cache_existing
    /\ Resolved
    /\ ret.ngen = 0
    /\ ~ret.rebuilt
    /\ Len(Pool) = MaxPoolSize

\* C9: after clear_caches the pool of every relation of every registered
\* table model is empty.
C9_ClearCachesEmptiesPools ==
    (ret.op = "clear_caches" /\ Registered(models, relation.from_table))
    => cached_data = EmptyCache

\* C10: a resolution of any cardinality whose to_table is not registered
\* raises KeyError, returns no value and leaves cache and registry unchanged.
C10_Step ==
    (ret'.op = "generate_related_data" /\ ~Registered(models, ToTable))
    => /\ ret'.err = "KeyError"
       /\ ret'.scalar = NULL
       /\ ret'.list = <<>>
       /\ ret'.rows = <<>>
       /\ cached_data' = cached_data
       /\ models' = models

C10_UnregisteredTarget == [][C10_Step]_vars

\* C10 as the code has it: a resolution whose to_table is not registered
\* raises, returns no value and leaves cache and registry unchanged; the
\* error is KeyError, except that a OneToMany or ManyToMany relation with
\* min_related > max_related raises the ValueError of random.randint, which
\* is called before the registry is consulted.
C10_AmendedStep ==
    (ret'.op = "generate_related_data" /\ ~Registered(models, ToTable))
    => /\ ret'.err =
            IF /\ relation.kind \in {"OneToMany", "ManyToMany"}
               /\ relation.config.min_related > relation.config.max_related
            THEN "ValueError"
            ELSE "KeyError"
       /\ ret'.scalar = NULL
       /\ ret'.list = <<>>
       /\ ret'.rows = <<>>
       /\ ret'.ngen = 0
       /\ cached_data' = cached_data
       /\ models' = models

C10_UnregisteredRaises == [][C10_AmendedStep]_vars

C10_Witness ==
    /\ ret.op = "generate_related_data"
    /\ ret.err = "KeyError"
    /\ Registered(models, relation.from_table)
    /\ ~Registered(models, ToTable)
    /\ relation.kind = "ManyToMany"

\* C11: every register call completes without error, a lookup returns the
\* model most recently registered under the name, and the lookup of a name
\* that was never registered raises KeyError and leaves the registry unchanged.
C11_Step ==
    /\ ret'.op = "register_model"
       => ret'.err = "" /\ models'[ret'.target] = ret'.model
    /\ ret'.op = "get_model"
       => /\ models' = models
          /\ IF Registered(models, ret'.target)
             THEN ret'.err = "" /\ ret'.model = models[ret'.target]
             ELSE ret'.err = "KeyError" /\ ret'.model = NoModel

C11_RegistryContract == [][C11_Step]_vars

\* C12: in Column.generate the nullability trial comes before any generator:
\* when the trial of a nullable column succeeds the result is null and no
\* generator is invoked; otherwise a column with a custom generator returns
\* that generator's result unchanged and the default generator is not invoked.
C12_NullGateFirst ==
    gret.op = "generate"
    => /\ column.nullable
          => /\ gret.calls # <<>>
             /\ gret.calls[1] = "random"
       /\ gret.trial
          => /\ column.nullable
             /\ gret.value = NULL
             /\ gret.calls = <<"random">>
       /\ (~gret.trial /\ column.generator = "custom")
          => /\ gret.calls[Len(gret.calls)] = "generator"
             /\ "default_generator" \notin Range(gret.calls)
             /\ gret.value = gret.inner
             /\ gret.value \in CustomValues

\* the trial of a nullable column with a custom generator succeeded
C12_Witness ==
    /\ gret.op = "generate"
    /\ column.nullable
    /\ column.generator = "custom"
    /\ gret.trial
    /\ gret.value = NULL

\* C13: every row that TableModel.generate_row or DataGenerator.generate_row
\* returns carries a non-null value in every column declared non-nullable.
C13_NonNullable ==
    /\ (gret.op = "generate_row" /\ ~column.nullable)
       => gret.row["c"] # NULL
    /\ gret.op = "dg_generate_row"
       => \A c \in DGColumns :
             ~dg_config[c].nullable
             => c \in DOMAIN gret.row /\ gret.row[c] # NULL

\* C14: a column constructed with skip_generation=True exists, and its
\* generate yields null on every call without the null gate, the custom
\* generator or the default generator being invoked.
C14_SkipGenerationYieldsNull ==
    /\ (gret.op = "construct" /\ gret.kwarg_skip)
       => gret.err = "" /\ column.skip_generation
    /\ (gret.op = "generate" /\ column.skip_generation)
       => gret.value = NULL /\ gret.calls = <<>>

\* the bulk writes attempted by the a-th call of insert_table_data, in order
AttemptWrites(a) == SelectSeq(writes, LAMBDA w : w.attempt = a)

RECURSIVE SumRows(_)
SumRows(ws) == IF ws = <<>> THEN 0 ELSE ws[1].rows + SumRows(Tail(ws))

CeilDiv(n, b) == (n + b - 1) \div b

\* C15: no row of a batch handed to the bulk write has a key for a column
\* flagged skip_generation: the keys of every payload row are among the
\* unflagged columns of the table model, and the column list of the insert
\* statement is exactly the set of unflagged columns.
C15_SkipColumnsNotInserted ==
    \A i \in 1..Len(writes) :
       LET w == writes[i]
           unflagged == ColumnNames(w.table) \ flagged
       IN /\ \A ks \in w.row_keys : ks \subseteq unflagged /\ ks \cap flagged = {}
          /\ Range(w.column_list) = unflagged
          /\ Len(w.column_list) = Cardinality(unflagged)

\* a batch of the employee table was written while its id column is flagged
C15_Witness ==
    /\ "id" \in flagged
    /\ \E i \in 1..Len(writes) :
          /\ writes[i].table = "employee"
          /\ writes[i].ok
          /\ writes[i].rows = MaxBatchSize
          /\ writes[i].row_keys = {ColumnNames("employee") \ {"id"}}

\* C16: when every batch write succeeds, insert_table_data for N rows and
\* batch size B requests min(B, remaining) rows per iteration, never more
\* than remain, performs ceil(N / B) bulk writes, writes N rows in total and
\* returns success.
C16_BatchCount ==
    \A a \in 1..Len(attempts) :
       LET at == attempts[a]
           ws == AttemptWrites(a)
           N == at.model.rows_per_table
           B == at.model.batch_size
       IN /\ \A i \in 1..Len(ws) :
                /\ ws[i].requested = Min(B, N - ws[i].before)
                /\ ws[i].requested <= N - ws[i].before
                /\ ws[i].rows = ws[i].requested
          /\ (at.result # "running" /\ \A i \in 1..Len(ws) : ws[i].ok)
             => /\ at.result = "ok"
                /\ Len(ws) = CeilDiv(N, B)
                /\ at.gen_calls = Len(ws)
                /\ SumRows(ws) = N
                /\ at.rows_inserted = N

\* a table written in full whose last batch is smaller than the batch size
C16_Witness ==
    \E a \in 1..Len(attempts) :
       /\ attempts[a].result = "ok"
       /\ attempts[a].model.rows_per_table = MaxInsertRows
       /\ attempts[a].model.batch_size = MaxBatchSize
       /\ Len(AttemptWrites(a)) = CeilDiv(MaxInsertRows, MaxBatchSize)
       /\ AttemptWrites(a)[Len(AttemptWrites(a))].rows < MaxBatchSize

\* C17: if the k-th batch write of insert_table_data fails, the call returns
\* failure after exactly k write attempts: the failed batch is not retried,
\* and no rows are generated and no write is attempted for a later batch.
C17_StopAtFailedBatch ==
    \A a \in 1..Len(attempts) :
       LET at == attempts[a]
           ws == AttemptWrites(a)
       IN \A k \in 1..Len(ws) :
             ~ws[k].ok
             => /\ at.result = "failed"
                /\ Len(ws) = k
                /\ at.gen_calls = k
                /\ \A j \in 1..(k - 1) : ws[j].ok /\ ws[j].before < ws[k].before

\* the second batch of a table failed while a third batch remained, and the
\* run is over
C17_Witness ==
    /\ phase = "done"
    /\ \E a \in 1..Len(attempts) :
          /\ attempts[a].result = "failed"
          /\ Len(AttemptWrites(a)) = 2
          /\ attempts[a].model.rows_per_table
                > attempts[a].rows_inserted + attempts[a].model.batch_size

\* the rows committed to table t by the successful writes
RECURSIVE CommittedBy(_, _)
CommittedBy(ws, t) ==
    IF ws = <<>> THEN 0
    ELSE (IF ws[1].table = t /\ ws[1].ok THEN ws[1].rows ELSE 0)
         + CommittedBy(Tail(ws), t)

\* C18: a batch write persists all rows of its batch or none and releases its
\* connection on the success and on the failure path; when batch k of a table
\* fails, the rows of the batches before it stay persisted and no row of
\* batch k is.
C18_AtomicBatches ==
    /\ open_conns = 0
    /\ \A i \in 1..Len(writes) :
          writes[i].committed = IF writes[i].ok THEN writes[i].rows ELSE 0
    /\ \A t \in TableNames : persisted[t] = CommittedBy(writes, t)

\* a batch failed after part of its rows were executed, and a later batch of
\* another attempt failed after an earlier batch of that attempt was committed
C18_Witness ==
    /\ \E i \in 1..Len(writes) :
          /\ writes[i].outcome = "execute_error"
          /\ writes[i].executed >= 1
    /\ \E a \in 1..Len(attempts) :
          /\ attempts[a].result = "failed"
          /\ Len(AttemptWrites(a)) >= 2
          /\ persisted[attempts[a].model.cls] >= AttemptWrites(a)[1].rows
          /\ AttemptWrites(a)[1].rows >= 1

\* C19: insert_tables calls insert_table_data for every table of its list, in
\* list order, whatever the earlier results, and the mapping it returns has an
\* entry exactly for the table names of the list, each the result of the last
\* call for that name.
C19_EveryTableAttempted ==
    /\ Len(attempts) <= Len(tables)
    /\ \A a \in 1..Len(attempts) : attempts[a].model = tables[a]
    /\ phase = "done"
       => /\ Len(attempts) = Len(tables)
          /\ \A t \in TableNames :
                LET idx == {a \in 1..Len(attempts) : attempts[a].model.cls = t}
                IN IF idx = {}
                   THEN results[t] = "absent"
                   ELSE results[t] =
                          attempts[CHOOSE a \in idx : \A x \in idx : x <= a].result

\* the first table failed and the second was written in full
C19_Witness ==
    /\ phase = "done"
    /\ Len(tables) = MaxTables
    /\ attempts[1].result = "failed"
    /\ attempts[Len(attempts)].result = "ok"
    /\ attempts[1].model.cls # attempts[Len(attempts)].model.cls

\* the rows the resolution with outcome r asked the referenced table's
\* generator for, under registry reg
RequestedRows(r, reg) ==
    CASE relation.kind = "OneToOne" -> 1
      [] relation.kind = "OneToMany" -> EffectiveCount(reg[ToTable], r.drawn)
      [] OTHER -> EffectiveCount(reg[ToTable], relation.config.pool_size)

\* C20: a generator that raises during generate_row, or during the generation
\* of referenced rows in a resolution, ends the call with that error: no row,
\* value or list is returned, generation stops at the failing row (nothing is
\* retried), and the relation's cache and the registry are left as they were.
C20_Step ==
    ret'.err = "GeneratorError"
    => /\ ret'.rows = <<>>
       /\ ret'.scalar = NULL
       /\ ret'.list = <<>>
       /\ cached_data' = cached_data
       /\ models' = models
       /\ ret'.op = "generate_row"
          => /\ ret'.ngen = 0
             /\ Len(ret'.trace) <= Len(ColumnOrder(ret'.target))
       /\ ret'.op = "generate_related_data"
          => ret'.ngen < RequestedRows(ret', models')

C20_ErrorsPropagate == [][C20_Step]_vars

\* a pool was being built and the generator raised after the first row
C20_Witness ==
    /\ ret.op = "generate_related_data"
    /\ ret.err = "GeneratorError"
    /\ relation.kind \in {"ManyToOne", "ManyToMany"}
    /\ ret.ngen >= 1
    /\ Pool = <<>>

\* C21: _prepare_data and insert_batch leave every row of the batch they are
\* given unchanged: after the call the list holds the same rows with the same
\* keys and values, flagged columns and unformatted timestamps included, and
\* the payload is built from new mappings.
C21_RowsNotMutated ==
    call.op \in {"_prepare_data", "insert_batch"}
    => /\ call.data_after = call.data_before
       /\ \A i \in 1..Len(call.data_after) :
             /\ DOMAIN call.data_after[i] = ColumnNames(call.table)
             /\ \A c \in DateTimeColumns \cap ColumnNames(call.table) :
                   call.data_after[i][c] = AnyValue
       /\ Len(call.payload) \in {0, Len(call.data_before)}

\* a batch with a flagged key column and timestamps was written: the payload
\* differs from the rows, which still carry the flagged column
C21_Witness ==
    /\ call.op = "insert_batch"
    /\ call.ok
    /\ call.table = "employee"
    /\ "id" \in flagged
    /\ Len(call.data_before) = MaxBatchSize
    /\ call.payload # call.data_before
    /\ "id" \notin DOMAIN call.payload[1]
    /\ call.payload[1]["hire_date"] = isoformat(AnyValue)
    /\ call.data_after[1]["id"] \in Keys

\* C22: the registry is consulted when a relation is resolved, not when it is
\* created: a resolution succeeds exactly when its target is registered at
\* the time of the call, however long after the relation's creation that
\* registration came; a registration changes neither the relation, its cache
\* nor the recorded outcome of an earlier failed attempt, and the attempt that
\* follows it succeeds.
C22_Step ==
    /\ ret'.op = "generate_related_data"
       => /\ (ret'.err = "") <=> Registered(models, ToTable)
          /\ (ret'.err = "KeyError") <=> ~Registered(models, ToTable)
          /\ Len(observed) < MaxObserved
             => observed' = Append(observed, ret'.err)
    /\ ret'.op = "register_model"
       => /\ relation' = relation
          /\ cached_data' = cached_data
          /\ observed' = observed
          /\ \A t \in TableNames \ {ret'.target} : models'[t] = models[t]

C22_AmendedStep ==
    /\ ret'.op = "generate_related_data"
       => LET empty_range ==
                  /\ relation.kind \in {"OneToMany", "ManyToMany"}
                  /\ relation.config.min_related > relation.config.max_related
              served ==
                  /\ ~empty_range
                  /\ relation.kind = "ManyToMany" => ret'.drawn >= 0
                  /\ relation.kind = "ManyToOne"
                     => (relation.config.pool_size >= 0
                         \/ (Pool # <<>> /\ relation.config.cache_existing))
          IN /\ (ret'.err = "KeyError")
                <=> (~Registered(models, ToTable) /\ ~empty_range)
             /\ (ret'.err = "") <=> (Registered(models, ToTable) /\ served)
             /\ ret'.err \in {"", "KeyError", "ValueError", "IndexError"}
             /\ Len(observed) < MaxObserved
                => observed' = Append(observed, ret'.err)
    /\ ret'.op = "register_model"
       => /\ relation' = relation
          /\ cached_data' = cached_data
          /\ observed' = observed
          /\ \A t \in TableNames \ {ret'.target} : models'[t] = models[t]

C23_BoundedGeneration ==
    /\ (ret.op = "generate_row" /\ ret.err = "")
       => Len(ret.trace) = Len(ColumnOrder(ret.target))
    /\ Resolved
       => CASE relation.kind = "OneToOne" -> ret.ngen = 1
            [] relation.kind = "OneToMany" ->
                  ret.ngen <= relation.config.max_related
            [] OTHER -> ret.ngen <= relation.config.pool_size

\* C24: for one table schema the columns that DataGenerator.generate_row emits
\* from the generated JSON configuration are the columns the table-model path
\* sends to insertion: a column is left out exactly when it is a
\* database-assigned primary key, and a primary-key column that the database
\* does not assign is generated.
C24_SameRowContract ==
    (gret.op = "dg_generate_row" /\ dg_config = generate_table_config(schema))
    => /\ table_model_error(schema) = ""
       /\ DOMAIN gret.row = model_path_columns(schema)
       /\ \A c \in DOMAIN schema :
             c \notin DOMAIN gret.row
             <=> (schema[c].primary_key /\ schema[c].auto_increment)

\* the positions of the nulls in a list of rows
NullPattern(rows) ==
    [i \in 1..Len(rows) |-> {c \in DOMAIN rows[i] : rows[i][c] = NULL}]

\* C25: regenerating from the same configuration reproduces the shape of the
\* output: the number of rows asked for, in every row the same set of column
\* names, and nulls only in columns declared nullable; and two DataGenerator
\* instances built from the same configuration, each generating the same
\* number of rows right after its construction, produce the same pattern of
\* nulls.
C25_ShapeReproduced ==
    /\ \A i \in DGInstances :
          dgen.inst[i].generated
          => /\ Len(dgen.inst[i].out) = dgen.inst[i].count
             /\ \A k \in 1..Len(dgen.inst[i].out) :
                   LET row == dgen.inst[i].out[k] IN
                   /\ DOMAIN row = {c \in DGColumns : ~dg_config[c].primary_key}
                   /\ \A c \in DOMAIN row : row[c] = NULL => dg_config[c].nullable
    /\ \A i, j \in DGInstances :
          (/\ dgen.inst[i].generated /\ dgen.inst[i].was_fresh
           /\ dgen.inst[j].generated /\ dgen.inst[j].was_fresh
           /\ dgen.inst[i].count = dgen.inst[j].count)
          => NullPattern(dgen.inst[i].out) = NullPattern(dgen.inst[j].out)

\* C26: when row generation raises while insert_table_data produces a batch,
\* the call ends with failure for that table: the batch and the later batches
\* are neither generated nor written, the batches written before stay, the
\* exception does not leave insert_tables, and every later table of the list
\* is attempted and gets its own result.
C26_GenerationErrorIsTableFailure ==
    /\ \A a \in 1..Len(attempts) :
          LET at == attempts[a]
              ws == AttemptWrites(a)
          IN at.raised
             => /\ at.result = "failed"
                /\ Len(ws) = at.gen_calls - 1
                /\ \A i \in 1..Len(ws) : ws[i].ok
                /\ at.rows_inserted = SumRows(ws)
                /\ at.rows_inserted < at.model.rows_per_table
                /\ tix > a
    /\ Len(attempts) <= Len(tables)
    /\ tix \in {Len(attempts), Len(attempts) + 1}
    /\ phase = "done"
       => /\ Len(attempts) = Len(tables)
          /\ \A a \in 1..Len(attempts) :
                /\ attempts[a].model = tables[a]
                /\ attempts[a].result # "running"
                /\ results[tables[a].cls] # "absent"

\* generation raised in the second batch of the first table, whose first batch
\* was written, and the table after it was written in full
C26_Witness ==
    /\ phase = "done"
    /\ Len(tables) = MaxTables
    /\ attempts[1].raised
    /\ attempts[1].gen_calls = 2
    /\ persisted[attempts[1].model.cls] = attempts[1].rows_inserted
    /\ attempts[1].rows_inserted >= 1
    /\ attempts[2].result = "ok"
    /\ ~attempts[2].raised
    /\ attempts[2].model.cls # attempts[1].model.cls

\* C27: every non-null value that generate returns for a ReferenceColumn
\* without custom generator is in its _cached_values, and _cached_values holds
\* only keys that a fetch read from the referenced table or that a committed
\* insert of a new referenced row returned.
C27_ReferentialIntegrity ==
    /\ (/\ gret.op = "ref_generate"
        /\ gret.err = ""
        /\ refcol.generator = "none"
        /\ gret.value # NULL)
       => gret.value \in cached_values
    /\ cached_values \subseteq ref_hist.read \cup ref_hist.inserted

\* a call on a not nullable column without custom generator fetched the keys
\* of the referenced table and returned one of them
C27_Witness ==
    /\ gret.op = "ref_generate"
    /\ gret.err = ""
    /\ gret.calls = <<"fetch">>
    /\ refcol.generator = "none"
    /\ ~refcol.nullable
    /\ gret.value # NULL
    /\ gret.value \in cached_values
    /\ cached_values = ref_hist.read
    /\ cached_values = referenced
    /\ Cardinality(cached_values) = MaxKey

\* C30: over any sequence of generate calls on one ReferenceColumn the cache
\* never loses an element; keys are fetched only by a call that starts with an
\* empty cache and a connector; a referenced row is inserted only by a call
\* whose cache is still empty after its fetch; a call that starts with a
\* non-empty cache neither queries nor writes the database; at most one
\* referenced row is ever inserted.
C30_Step ==
    /\ cached_values \subseteq cached_values'
    /\ (\E i \in 1..Len(gret'.calls) : gret'.calls[i] = "fetch")
       => (cached_values = {} /\ refcol.db_connector)
    /\ (\E i \in 1..Len(gret'.calls) : gret'.calls[i] = "insert")
       => (/\ cached_values = {}
           /\ gret'.calls = <<"fetch", "insert">>
           /\ ref_hist'.read = ref_hist.read
           /\ referenced = {})
    /\ cached_values # {}
       => (gret'.calls = <<>> /\ referenced' = referenced
           /\ ref_hist' = ref_hist)
    /\ ref_hist'.rows_inserted <= 1

C30_CacheOnce == [][C30_Step]_vars

\* a call served from the cache that an earlier call fetched: it sends no
\* statement
C30_Witness ==
    /\ gret.op = "ref_generate"
    /\ gret.calls = <<>>
    /\ gret.err = ""
    /\ gret.value \in cached_values
    /\ cached_values = ref_hist.read
    /\ cached_values # {}
    /\ ref_hist.rows_inserted = 0
    /\ refcol.generator = "none"
    /\ refcol.db_connector
    /\ ~refcol.nullable

\* C28: _analyze_relationships returns exactly one relation per foreign key,
\* for the referred table of that key, and its kind is OneToOne exactly when
\* the key's column set is that of a unique constraint or of the primary key
\* of the table; otherwise ManyToMany exactly when the referred table has a
\* foreign key back to the table and the key has more than one column;
\* otherwise OneToMany exactly when there is such a reverse key; otherwise
\* ManyToOne.
C28_DetectedKinds ==
    relationships.analysed =>
       LET fks == inspector.foreign_keys[AnalysedTable]
           Unique(fk) ==
               {fk.constrained_columns[i] :
                    i \in DOMAIN fk.constrained_columns}
               \in {{c[i] : i \in DOMAIN c} :
                        c \in inspector.unique_constraints
                              \cup {inspector.pk_constraint}}
           Reverse(fk) ==
               AnalysedTable \in
                   {k.referred_table :
                        k \in Range(inspector.foreign_keys[fk.referred_table])}
           Composite(fk) == Len(fk.constrained_columns) >= 2
           Kind(fk) ==
               CASE Unique(fk) -> "OneToOneRelation"
                 [] ~Unique(fk) /\ Reverse(fk) /\ Composite(fk)
                      -> "ManyToManyRelation"
                 [] ~Unique(fk) /\ Reverse(fk) /\ ~Composite(fk)
                      -> "OneToManyRelation"
                 [] ~Unique(fk) /\ ~Reverse(fk) -> "ManyToOneRelation"
       IN  /\ Len(relationships.list) = Len(fks)
           /\ \A i \in 1..Len(fks) :
                 /\ relationships.list[i].class = Kind(fks[i])
                 /\ relationships.list[i].to_table = fks[i].referred_table
                 /\ relationships.list[i].from_table = AnalysedTable

C28_Witness ==
    /\ relationships.analysed
    /\ Len(relationships.list) = 2
    /\ relationships.list[1].class = "OneToOneRelation"
    /\ relationships.list[2].class = "ManyToManyRelation"
    /\ inspector.pk_constraint = <<>>
    /\ \E i \in 1..Len(inspector.foreign_keys[relationships.list[1].to_table]) :
          inspector.foreign_keys[relationships.list[1].to_table][i].referred_table
              = AnalysedTable

\* C29: for every rows_per_table and batch_size the constructor or the
\* command-line overrides can assign, every iteration of the loop of
\* insert_table_data that does not return increases rows_inserted (the
\* variant that makes the loop end), and rows_inserted never exceeds
\* rows_per_table.
C29_Step ==
    /\ (phase = "loop" /\ phase' = "loop") => rows_inserted' > rows_inserted
    /\ phase' = "loop" => rows_inserted' <= tables[tix'].rows_per_table

C29_LoopTerminates == [][C29_Step]_vars
====
